---- MODULE Spec2Model ----
(***************************************************************************)
(* Crawly: crawl / persist / validate / sync.                              *)
(*                                                                         *)
(* The staging store (crawly_lidl_db) and the master store (crawly_db)     *)
(* are modelled as tables of rows.  A SQLAlchemy session is modelled as a  *)
(* snapshot taken when the transaction starts plus the set of writes it    *)
(* has flushed; commit applies the writes, rollback discards them.         *)
(***************************************************************************)
EXTENDS Integers, Sequences, FiniteSets, TLC

VARIABLES
    products,      \* staging table products: set of rows
    history,       \* staging table product_history: sequence of rows (id = index)
    runs,          \* staging table scraper_runs: sequence of rows (id = index)
    now,           \* datetime.utcnow(), a logical clock
    sc,            \* per scraper process: the locals of LidlScraper.scrape
    pageAccepted,  \* per run: records accepted by the page saves of the attempt
    savedCalls,    \* per SKU: committed save calls that accepted the SKU
    mProducts,     \* master table products: set of rows
    mHistory,      \* master table product_history
    mRuns,         \* master table scraper_runs
    mPrev,         \* the master tables as they were when sync was called
    pl,            \* the validate-then-sync pipeline: locals of main()
    crawlers,      \* per attempt: the LidlCrawler object and what it holds
    cw,            \* where the "async with LidlCrawler(...)" of the attempt is
    nav,           \* one call of LidlCrawler.navigate: its position and its log
    ex,            \* one call of ProductExtractor.extract_products
    vp,            \* one call of a function of utils/validators.py
    cfg,           \* the process of utils/config_loader.py: file, cache, calls
    lp,            \* the pagination loop of one attempt and its click_element call
    rc,            \* two crawls of one product: what the site shows and what was saved
    rd,            \* a request to the read API: the master tables it was answered from
    sch            \* the scheduler process: its position, the time of day and the crawl it runs

stagingVars == <<products, history, runs>>
crawlVars == <<now, sc, pageAccepted, savedCalls>>
masterVars == <<mProducts, mHistory, mRuns>>
syncVars == <<mProducts, mHistory, mRuns, mPrev, pl>>

browserVars == <<crawlers, cw>>
toolVars == <<nav, ex, vp, cfg, lp, rc, rd, sch>>

vars == <<products, history, runs, now, sc, pageAccepted, savedCalls,
          mProducts, mHistory, mRuns, mPrev, pl, crawlers, cw,
          nav, ex, vp, cfg, lp, rc, rd, sch>>

----------------------------------------------------------------------------
(* Bounds of the model *)

\* largest configured page cap (--max-pages)
MaxPagesCfg == 2
\* pages fetched over all attempts (caps the clock)
MaxTicks == 2
\* invocations of sync_and_validate.py one after the other
MaxPipelineRuns == 2

(* Program constants *)

\* stop_after_attempt(3)
MaxAttempts == 3

Null == 0
NoSku == ""
NoName == ""
\* the product_name of an extracted record (_validate_product: never empty)
SomeName == "n"

\* max_pages=None: run_scraper.py without --max-pages, and the scheduler
NoCap == -1

\* the values max_pages can be given: None, or the integer of --max-pages
\* (argparse type=int; negative integers are left out)
Caps == {NoCap} \cup (0..MaxPagesCfg)
Skus == {"a", "b"}

\* What the extractor can hand to the scraper: a name and a price > 0 are
\* guaranteed by _validate_product, a SKU is not (structured payload without id).
rNoSku == [sku |-> NoSku, price |-> 1]
rA1 == [sku |-> "a", price |-> 1]
rA2 == [sku |-> "a", price |-> 2]
rB1 == [sku |-> "b", price |-> 1]

\* The record lists one page can yield: an empty page, one SKU at either
\* price, the same SKU twice, a record without SKU before another SKU.
Batches == {<<>>, <<rA1>>, <<rA2>>, <<rA1, rA2>>, <<rNoSku, rB1>>}

Scrapers == {"s1", "s2"}

----------------------------------------------------------------------------
(* The session of one _save_products call *)

EmptyStats == [new |-> 0, updated |-> 0, skipped |-> 0, dups |-> 0]

\* rows: the row versions written (flushed) by the session, insIds: the ids
\* of the rows among them that are inserts, hist: the history rows added,
\* seen: seen_skus_in_batch, stats: the stats dictionary.
EmptyTx == [rows |-> {}, insIds |-> {}, hist |-> <<>>, seen |-> {}, stats |-> EmptyStats]

Ids(rows) == {p.id : p \in rows}

SetMax(S) == IF S = {} THEN 0 ELSE CHOOSE m \in S : \A x \in S : x <= m

\* What the session sees: its snapshot overlaid with its own writes.
SessionView(snap, tx) == {p \in snap : p.id \notin Ids(tx.rows)} \cup tx.rows

\* a commit that makes nothing durable
ApplyRowsLost(tbl, tx) == tbl

\* db.commit(): the writes of the session become part of the tables.
ApplyRows(tbl, tx) == {p \in tbl : p.id \notin Ids(tx.rows)} \cup tx.rows

\* a session whose writes survive the rollback
RollbackKeeps(tx) == tx

\* db.rollback(): every write of the session is discarded.
Rollback(tx) == EmptyTx

\* a products table without the unique index on sku
UniqueSkuOff(tbl, tx) == TRUE

\* products.sku is unique=True: an insert of a SKU some committed row holds
\* is refused by the database (IntegrityError).
UniqueSku(tbl, tx) ==
    \A r \in tx.rows : r.id \in tx.insIds => ~\E p \in tbl : p.sku = r.sku

\* a loop that never recognises a SKU of its batch
InBatchNever(sku, seen) == FALSE

\* "if sku in seen_skus_in_batch"
InBatch(sku, seen) == sku \in seen

\* db.add(new_product); db.flush(); product_id = new_product.id :
\* the flush makes the database assign the next free id.
FlushedId(used) == SetMax(used) + 1

\* an update that leaves the time stamps as they were
UpdatedRowUnstamped(p, r, t) == [p EXCEPT !.name = SomeName, !.price = r.price]

\* the branch "if existing_product": overwrite the mutable fields, stamp
\* last_scraped and last_updated, keep id, sku and first_seen.
UpdatedRow(p, r, t) ==
    [p EXCEPT !.name = SomeName, !.price = r.price,
              !.last_scraped = t, !.last_updated = t]

\* the branch "else": Product(sku=..., first_seen=utcnow(), last_scraped=utcnow());
\* last_updated takes its column default, utcnow().
NewRow(id, r, t) ==
    [id |-> id, sku |-> r.sku, name |-> SomeName, price |-> r.price,
     first_seen |-> t, last_updated |-> t, last_scraped |-> t]

\* new_product.id read without the flush is still None
HistoryProductIdUnflushed(row, isNew) == IF isNew THEN Null ELSE row.id

\* "product_id = existing_product.id" / "db.flush(); product_id = new_product.id"
HistoryProductId(row, isNew) == row.id

HistoryRow(pid, r, run_id, t) ==
    [product_id |-> pid, sku |-> r.sku, price |-> r.price,
     run_id |-> run_id, scraped_at |-> t]

\* a skip that is not counted
SkipUncounted(tx) == tx

\* "if not sku": stats["skipped_products"] += 1; continue
SkipCounted(tx) == [tx EXCEPT !.stats.skipped = @ + 1]

\* One iteration of "for product_data in products".
SaveOne(tx, r, snap, run_id, t, used) ==
    IF r.sku = NoSku
    THEN SkipCounted(tx)
    ELSE IF InBatch(r.sku, tx.seen)
    THEN [tx EXCEPT !.stats.dups = @ + 1]
    ELSE LET existing == {p \in SessionView(snap, tx) : p.sku = r.sku}
         IN  IF existing # {}
             THEN LET p == CHOOSE q \in existing : \A o \in existing : q.id <= o.id
                  IN  [tx EXCEPT !.seen = @ \cup {r.sku},
                                 !.rows = {q \in @ : q.id # p.id} \cup {UpdatedRow(p, r, t)},
                                 !.hist = Append(@, HistoryRow(HistoryProductId(p, FALSE), r, run_id, t)),
                                 !.stats.updated = @ + 1]
             ELSE LET id == FlushedId(used \cup Ids(snap) \cup Ids(tx.rows))
                  IN  [tx EXCEPT !.seen = @ \cup {r.sku},
                                 !.rows = @ \cup {NewRow(id, r, t)},
                                 !.insIds = @ \cup {id},
                                 !.hist = Append(@, HistoryRow(HistoryProductId(NewRow(id, r, t), TRUE), r, run_id, t)),
                                 !.stats.new = @ + 1]

\* The loop of _save_products over the first n records.
RECURSIVE SaveLoop(_, _, _, _, _, _)
SaveLoop(recs, n, snap, run_id, t, used) ==
    IF n = 0 THEN EmptyTx
    ELSE SaveOne(SaveLoop(recs, n - 1, snap, run_id, t, used), recs[n], snap, run_id, t, used)

----------------------------------------------------------------------------
(* LidlScraper.scrape: one process per scraper *)

\* the locals of scrape(); found counts the records extract_products returned
\* in the attempt
IdleScraper ==
    [pc |-> "idle", attempt |-> 0, max_pages |-> NoCap, run_id |-> 0,
     all_products |-> <<>>, found |-> 0, page_count |-> 0, total_new |-> 0, total_updated |-> 0,
     batch |-> <<>>, salvage |-> FALSE,
     snap |-> {}, tx |-> EmptyTx, failedAt |-> 0, accepted |-> {}]

\* ScraperRun(start_time=utcnow(), status="running")
NewRun(t) ==
    [status |-> "running", start_time |-> t, end_time |-> Null,
     products_found |-> 0, products_new |-> 0, products_updated |-> 0, errors |-> ""]

\* a finalisation that does not filter by run_id
RunsToFinalizeAll(rs, run_id) == DOMAIN rs

\* db.query(ScraperRun).filter(ScraperRun.id == run_id).first()
RunsToFinalize(rs, run_id) == {i \in DOMAIN rs : i = run_id}

\* ids the database has handed out and not taken back
UsedIds == Ids(products) \cup UNION {Ids(sc[s].tx.rows) : s \in Scrapers}

\* a retry policy without a stop condition
AfterRaiseAgain(l) == [l EXCEPT !.pc = "retry", !.batch = <<>>, !.salvage = FALSE]

\* tenacity: stop_after_attempt(3), retry_if_exception_type(Exception)
AfterRaise(l) ==
    [l EXCEPT !.pc = IF l.attempt < MaxAttempts THEN "retry" ELSE "raised",
              !.batch = <<>>, !.salvage = FALSE]

\* "except Exception": salvage all_products when there are any, then mark the run
EnterHandler(l) ==
    IF l.all_products # <<>>
    THEN [l EXCEPT !.pc = "save", !.salvage = TRUE, !.batch = l.all_products]
    ELSE [l EXCEPT !.pc = "failrun", !.batch = <<>>]

\* an exception of a save call reaches its caller: the page save is inside the
\* try block, the salvage save is inside "try ... except Exception as save_error"
SaveRaised(l) ==
    IF l.salvage
    THEN [l EXCEPT !.pc = "failrun", !.batch = <<>>, !.snap = {}, !.tx = EmptyTx]
    ELSE EnterHandler([l EXCEPT !.snap = {}, !.tx = EmptyTx])

\* the tables of one store
EmptyStore == [products |-> {}, history |-> <<>>, runs |-> <<>>]

\* main() of sync_and_validate.py before its first statement; synced_count and
\* skipped_count are the counters of the DataSyncer object
\* issues and warnings are the lengths of the lists of the DataValidator
\* object, validated is the products table validate() read, run numbers the
\* invocations of main(), prior tells whether the invocation before ended
\* with a successful sync
IdlePipeline ==
    [pc |-> "start", validation |-> "none", exit |-> -1,
     syncCalls |-> 0, synced_count |-> 0, skipped_count |-> 0,
     issues |-> 0, warnings |-> 0, validated |-> {}, run |-> 1, prior |-> FALSE]

\* no call of LidlCrawler.navigate is under way: nothing tried, nothing returned
IdleNav == [pc |-> "idle", method |-> 0, log |-> <<>>, result |-> "none"]

\* no call of extract_products, of a validator or of load_config was made
IdleExtractor == [pc |-> "idle"]
IdleValidator == [pc |-> "idle"]
IdleConfig == [pc |-> "idle"]

\* the attempt has not reached "while True"
IdleLoop == [pc |-> "idle"]

\* no crawl of the product was made
IdleRecrawl == [pc |-> "idle"]

\* no request to the read API was answered
IdleReader == [pc |-> "idle"]
IdleSched == [pc |-> "idle"]

ToolsIdle ==
    /\ nav = IdleNav
    /\ ex = IdleExtractor
    /\ vp = IdleValidator
    /\ cfg = IdleConfig
    /\ lp = IdleLoop
    /\ rc = IdleRecrawl
    /\ rd = IdleReader
    /\ sch = IdleSched

\* both stores empty, no scraper, pipeline or browser session started
ProgramIdle ==
    /\ products = {}
    /\ history = <<>>
    /\ runs = <<>>
    /\ now = 1
    /\ sc = [s \in Scrapers |-> IdleScraper]
    /\ pageAccepted = <<>>
    /\ savedCalls = [k \in Skus |-> 0]
    /\ mProducts = {}
    /\ mHistory = <<>>
    /\ mRuns = <<>>
    /\ mPrev = EmptyStore
    /\ pl = IdlePipeline
    /\ crawlers = <<>>
    /\ cw = "idle"

Init == ProgramIdle /\ ToolsIdle

\* scrape(), lines 54-68: the run row is committed before the try block
BeginAttempt(s, mp) ==
    /\ runs' = Append(runs, NewRun(now))
    /\ pageAccepted' = Append(pageAccepted, 0)
    /\ sc' = [sc EXCEPT ![s] =
                [IdleScraper EXCEPT !.pc = "nav", !.attempt = sc[s].attempt + 1,
                                    !.max_pages = mp, !.run_id = Len(runs) + 1]]
    /\ UNCHANGED <<products, history, now, savedCalls, syncVars, browserVars, toolVars>>

\* the commit of the run row fails: the exception leaves scrape() before the try
BeginAttemptFails(s, mp) ==
    /\ sc' = [sc EXCEPT ![s] =
                AfterRaise([IdleScraper EXCEPT !.attempt = sc[s].attempt + 1,
                                               !.max_pages = mp])]
    /\ UNCHANGED <<products, history, runs, now, pageAccepted, savedCalls, syncVars, browserVars, toolVars>>

\* run_scraper(headless, max_pages): construct the scraper, first attempt
RunScraper(s) ==
    /\ sc[s].pc = "idle"
    /\ \E mp \in Caps : BeginAttempt(s, mp)

\* run_scraper.py --max-pages 1
RunOnePage(s) ==
    /\ sc[s].pc = "idle"
    /\ BeginAttempt(s, 1)

RunOnePageFails(s) ==
    /\ sc[s].pc = "idle"
    /\ BeginAttemptFails(s, 1)

RunScraperFails(s) ==
    /\ sc[s].pc = "idle"
    /\ \E mp \in Caps : BeginAttemptFails(s, mp)

\* the retry policy calls scrape() again
Retry(s) ==
    /\ sc[s].pc = "retry"
    /\ BeginAttempt(s, sc[s].max_pages)

RetryFails(s) ==
    /\ sc[s].pc = "retry"
    /\ BeginAttemptFails(s, sc[s].max_pages)

\* lines 71-113: open the crawler, navigate, try the category selectors
Navigate(s) ==
    /\ sc[s].pc = "nav"
    /\ sc' = [sc EXCEPT ![s].pc = "page"]
    /\ UNCHANGED <<products, history, runs, now, pageAccepted, savedCalls, syncVars, browserVars, toolVars>>

\* crawler start raised, or navigate returned False (line 76)
NavigateFails(s) ==
    /\ sc[s].pc = "nav"
    /\ sc' = [sc EXCEPT ![s] = EnterHandler(@)]
    /\ UNCHANGED <<products, history, runs, now, pageAccepted, savedCalls, syncVars, browserVars, toolVars>>

\* lines 116-132: scroll, read the content, extract, extend all_products
FetchPage(s) ==
    /\ sc[s].pc = "page"
    /\ now <= MaxTicks
    /\ now' = now + 1
    /\ \E b \in Batches :
          sc' = [sc EXCEPT ![s] =
                   [@ EXCEPT !.page_count = @ + 1,
                             !.all_products = @ \o b,
                             !.found = @ + Len(b),
                             !.batch = b,
                             !.salvage = FALSE,
                             !.pc = IF b # <<>> THEN "save" ELSE "paginate"]]
    /\ UNCHANGED <<products, history, runs, pageAccepted, savedCalls, syncVars, browserVars, toolVars>>

\* get_page_content (or the parser) raises
FetchPageRaises(s) ==
    /\ sc[s].pc = "page"
    /\ sc' = [sc EXCEPT ![s] = EnterHandler([@ EXCEPT !.page_count = @ + 1])]
    /\ UNCHANGED <<products, history, runs, now, pageAccepted, savedCalls, syncVars, browserVars, toolVars>>

\* _save_products up to db.commit(): the loop ran over every record
SaveRun(s) ==
    /\ sc[s].pc = "save"
    /\ LET l == sc[s]
       IN  sc' = [sc EXCEPT ![s] =
                    [l EXCEPT !.pc = "commit", !.snap = products, !.failedAt = 0,
                              !.tx = SaveLoop(l.batch, Len(l.batch), products,
                                              l.run_id, now, UsedIds)]]
    /\ UNCHANGED <<products, history, runs, now, pageAccepted, savedCalls, syncVars, browserVars, toolVars>>

\* _save_products raises while handling record k: rollback, close, re-raise
SaveRaises(s) ==
    /\ sc[s].pc = "save"
    /\ \E k \in 1..Len(sc[s].batch) :
          LET l == sc[s]
              partial == SaveLoop(l.batch, k - 1, products, l.run_id, now, UsedIds)
              left == Rollback(partial)
          IN  /\ products' = ApplyRows(products, left)
              /\ history' = history \o left.hist
              /\ sc' = [sc EXCEPT ![s] = SaveRaised([l EXCEPT !.failedAt = k])]
    /\ UNCHANGED <<runs, now, pageAccepted, savedCalls, syncVars, browserVars, toolVars>>

\* the records of a batch that the loop of _save_products accepts: the first
\* record of every SKU
AcceptedOf(b) ==
    {b[i] : i \in {j \in DOMAIN b : b[j].sku # NoSku /\ \A h \in 1..(j - 1) : b[h].sku # b[j].sku}}

\* db.commit() of _save_products succeeds
SaveCommit(s) ==
    /\ sc[s].pc = "commit"
    /\ LET l == sc[s]
           st == l.tx.stats
       IN  /\ UniqueSku(products, l.tx)
           /\ products' = ApplyRows(products, l.tx)
           /\ history' = history \o l.tx.hist
           /\ savedCalls' = [k \in Skus |->
                               savedCalls[k] + IF \E i \in DOMAIN l.batch : l.batch[i].sku = k
                                               THEN 1 ELSE 0]
           /\ IF l.salvage
              THEN /\ sc' = [sc EXCEPT ![s] =
                               [l EXCEPT !.pc = "failrun", !.batch = <<>>,
                                         !.snap = {}, !.tx = EmptyTx]]
                   /\ UNCHANGED pageAccepted
              ELSE /\ sc' = [sc EXCEPT ![s] =
                               [l EXCEPT !.pc = "paginate", !.batch = <<>>,
                                         !.snap = {}, !.tx = EmptyTx,
                                         !.total_new = @ + st.new,
                                         !.total_updated = @ + st.updated,
                                         !.accepted = @ \cup AcceptedOf(l.batch)]]
                   /\ pageAccepted' = [pageAccepted EXCEPT ![l.run_id] = @ + st.new + st.updated]
    /\ UNCHANGED <<runs, now, syncVars, browserVars, toolVars>>

\* db.commit() of _save_products raises (IntegrityError or any database error)
SaveCommitRaises(s) ==
    /\ sc[s].pc = "commit"
    /\ LET l == sc[s]
           left == Rollback(l.tx)
       IN  /\ products' = ApplyRows(products, left)
           /\ history' = history \o left.hist
           /\ sc' = [sc EXCEPT ![s] = SaveRaised([l EXCEPT !.failedAt = Len(l.batch) + 1])]
    /\ UNCHANGED <<runs, now, pageAccepted, savedCalls, syncVars, browserVars, toolVars>>

\* "if self.max_pages and page_count >= self.max_pages": None and 0 are falsy
CapReached(l) ==
    /\ l.max_pages # NoCap /\ l.max_pages # 0
    /\ l.page_count >= l.max_pages

\* lines 140-164: the loop goes on after a click on the load-more control
NextPage(s) ==
    /\ sc[s].pc = "paginate"
    /\ ~CapReached(sc[s])
    /\ sc' = [sc EXCEPT ![s].pc = "page"]
    /\ UNCHANGED <<products, history, runs, now, pageAccepted, savedCalls, syncVars, browserVars, toolVars>>

\* lines 143-149, 162-164: a break (no next page, page cap, no control), then
\* the crawler is closed on leaving "async with"
LeaveLoop(s) ==
    /\ sc[s].pc = "paginate"
    /\ sc' = [sc EXCEPT ![s].pc = "finalize"]
    /\ UNCHANGED <<products, history, runs, now, pageAccepted, savedCalls, syncVars, browserVars, toolVars>>

\* crawler.close() raises on leaving "async with"
LeaveLoopRaises(s) ==
    /\ sc[s].pc = "paginate"
    /\ sc' = [sc EXCEPT ![s] = EnterHandler(@)]
    /\ UNCHANGED <<products, history, runs, now, pageAccepted, savedCalls, syncVars, browserVars, toolVars>>

\* a finalisation that stores the number of pages as products_found
FinalizeCompletedCountsPages(s) ==
    /\ sc[s].pc = "finalize"
    /\ LET l == sc[s]
       IN  /\ runs' = [i \in DOMAIN runs |->
                         IF i \in RunsToFinalize(runs, l.run_id)
                         THEN [runs[i] EXCEPT !.status = "completed",
                                              !.end_time = now,
                                              !.products_found = l.page_count,
                                              !.products_new = l.total_new,
                                              !.products_updated = l.total_updated]
                         ELSE runs[i]]
           /\ sc' = [sc EXCEPT ![s].pc = "returned"]
    /\ UNCHANGED <<products, history, now, pageAccepted, savedCalls, syncVars, browserVars, toolVars>>

\* lines 167-188
FinalizeCompleted(s) ==
    /\ sc[s].pc = "finalize"
    /\ LET l == sc[s]
       IN  /\ runs' = [i \in DOMAIN runs |->
                         IF i \in RunsToFinalize(runs, l.run_id)
                         THEN [runs[i] EXCEPT !.status = "completed",
                                              !.end_time = now,
                                              !.products_found = Len(l.all_products),
                                              !.products_new = l.total_new,
                                              !.products_updated = l.total_updated]
                         ELSE runs[i]]
           /\ sc' = [sc EXCEPT ![s].pc = "returned"]
    /\ UNCHANGED <<products, history, now, pageAccepted, savedCalls, syncVars, browserVars, toolVars>>

\* the session of lines 175-184 raises: the except block takes over
FinalizeCompletedRaises(s) ==
    /\ sc[s].pc = "finalize"
    /\ sc' = [sc EXCEPT ![s] = EnterHandler(@)]
    /\ UNCHANGED <<products, history, runs, now, pageAccepted, savedCalls, syncVars, browserVars, toolVars>>

\* lines 204-214
FinalizeFailed(s) ==
    /\ sc[s].pc = "failrun"
    /\ LET l == sc[s]
       IN  /\ runs' = [i \in DOMAIN runs |->
                         IF i \in RunsToFinalize(runs, l.run_id)
                         THEN [runs[i] EXCEPT !.status = "failed",
                                              !.end_time = now,
                                              !.errors = "Scraping failed"]
                         ELSE runs[i]]
           /\ sc' = [sc EXCEPT ![s] = AfterRaise(l)]
    /\ UNCHANGED <<products, history, now, pageAccepted, savedCalls, syncVars, browserVars, toolVars>>

\* the session of lines 205-212 raises: that exception leaves scrape()
FinalizeFailedRaises(s) ==
    /\ sc[s].pc = "failrun"
    /\ sc' = [sc EXCEPT ![s] = AfterRaise(@)]
    /\ UNCHANGED <<products, history, runs, now, pageAccepted, savedCalls, syncVars, browserVars, toolVars>>

\* the steps of an attempt, apart from the click that loads a further page
AttemptPage(s) ==
    \/ Navigate(s) \/ NavigateFails(s)
    \/ FetchPage(s) \/ FetchPageRaises(s)
    \/ SaveRun(s) \/ SaveRaises(s) \/ SaveCommit(s) \/ SaveCommitRaises(s)
    \/ LeaveLoop(s) \/ LeaveLoopRaises(s)
    \/ FinalizeCompleted(s) \/ FinalizeCompletedRaises(s)
    \/ FinalizeFailed(s) \/ FinalizeFailedRaises(s)

\* one scraper process: run_scraper() with its retries
Next ==
    \/ RunScraper("s1") \/ RunScraperFails("s1")
    \/ Retry("s1") \/ RetryFails("s1")
    \/ AttemptPage("s1") \/ NextPage("s1")

Spec == Init /\ [][Next]_vars

\* two scraper processes started with --max-pages 1 that write to the same
\* staging store, each followed through its first attempt
NextConc ==
    \E s \in Scrapers : RunOnePage(s) \/ RunOnePageFails(s) \/ AttemptPage(s)

SpecConc == Init /\ [][NextConc]_vars

----------------------------------------------------------------------------
(* LidlCrawler: the browser session of an attempt, "async with" in scrape *)

\* LidlCrawler.__init__: browser, context and page are None, the attribute
\* playwright does not exist yet
NewCrawler == [playwright |-> "none", browser |-> "none", context |-> "none", page |-> "none"]

OtherVars == <<products, history, runs, now, sc, pageAccepted, savedCalls,
               mProducts, mHistory, mRuns, mPrev, pl, nav, ex, vp, cfg, lp, rc, rd, sch>>

\* the crawler object of the attempt under way
Cur == crawlers[Len(crawlers)]

SetCur(field, val) == [crawlers EXCEPT ![Len(crawlers)][field] = val]

\* an awaited release call that raises may or may not have released its object
AfterFailedRelease == {"open", "closed"}

\* scrape() line 71, first attempt or a retry: LidlCrawler(headless=...), then
\* __aenter__ calls start()
EnterCrawler ==
    /\ cw \in {"idle", "raised"}
    /\ Len(crawlers) < MaxAttempts
    /\ crawlers' = Append(crawlers, NewCrawler)
    /\ cw' = "playwright"
    /\ UNCHANGED OtherVars

\* start(), line 53: async_playwright().start()
StartPlaywright ==
    /\ cw = "playwright"
    /\ crawlers' = SetCur("playwright", "open")
    /\ cw' = "launch"
    /\ UNCHANGED OtherVars

\* an exception in start() leaves "async with" through __aenter__: __aexit__
\* is not called
StartPlaywrightRaises ==
    /\ cw = "playwright"
    /\ cw' = "raised"
    /\ UNCHANGED <<OtherVars, crawlers>>

\* start(), line 66: chromium.launch
LaunchBrowser ==
    /\ cw = "launch"
    /\ crawlers' = SetCur("browser", "open")
    /\ cw' = "context"
    /\ UNCHANGED OtherVars

LaunchBrowserRaises ==
    /\ cw = "launch"
    /\ cw' = "raised"
    /\ UNCHANGED <<OtherVars, crawlers>>

\* start(), line 77: browser.new_context
NewContext ==
    /\ cw = "context"
    /\ crawlers' = SetCur("context", "open")
    /\ cw' = "newpage"
    /\ UNCHANGED OtherVars

NewContextRaises ==
    /\ cw = "context"
    /\ cw' = "raised"
    /\ UNCHANGED <<OtherVars, crawlers>>

\* start(), lines 78-85: context.new_page, set_default_timeout
NewPage ==
    /\ cw = "newpage"
    /\ crawlers' = SetCur("page", "open")
    /\ cw' = "body"
    /\ UNCHANGED OtherVars

NewPageRaises ==
    /\ cw = "newpage"
    /\ cw' = "raised"
    /\ UNCHANGED <<OtherVars, crawlers>>

\* the body of "async with" ends without an exception (a break of the loop)
BodyReturns ==
    /\ cw = "body"
    /\ cw' = "close_page"
    /\ UNCHANGED <<OtherVars, crawlers>>

\* the body raises (navigation failed, get_page_content or a page save raised)
BodyRaises ==
    /\ cw = "body"
    /\ cw' = "close_page_exc"
    /\ UNCHANGED <<OtherVars, crawlers>>

\* close(), lines 89-90: "if self.page: await self.page.close()"
ClosePage ==
    /\ cw \in {"close_page", "close_page_exc"}
    /\ crawlers' = IF Cur.page = "open" THEN SetCur("page", "closed") ELSE crawlers
    /\ cw' = IF cw = "close_page" THEN "close_context" ELSE "close_context_exc"
    /\ UNCHANGED OtherVars

\* a release call raises: the exception leaves close() and __aexit__ at once
ClosePageRaises ==
    /\ cw \in {"close_page", "close_page_exc"}
    /\ Cur.page = "open"
    /\ \E st \in AfterFailedRelease : crawlers' = SetCur("page", st)
    /\ cw' = "raised"
    /\ UNCHANGED OtherVars

\* close(), lines 91-92
CloseContext ==
    /\ cw \in {"close_context", "close_context_exc"}
    /\ crawlers' = IF Cur.context = "open" THEN SetCur("context", "closed") ELSE crawlers
    /\ cw' = IF cw = "close_context" THEN "close_browser" ELSE "close_browser_exc"
    /\ UNCHANGED OtherVars

CloseContextRaises ==
    /\ cw \in {"close_context", "close_context_exc"}
    /\ Cur.context = "open"
    /\ \E st \in AfterFailedRelease : crawlers' = SetCur("context", st)
    /\ cw' = "raised"
    /\ UNCHANGED OtherVars

\* close(), lines 93-94
CloseBrowser ==
    /\ cw \in {"close_browser", "close_browser_exc"}
    /\ crawlers' = IF Cur.browser = "open" THEN SetCur("browser", "closed") ELSE crawlers
    /\ cw' = IF cw = "close_browser" THEN "stop" ELSE "stop_exc"
    /\ UNCHANGED OtherVars

CloseBrowserRaises ==
    /\ cw \in {"close_browser", "close_browser_exc"}
    /\ Cur.browser = "open"
    /\ \E st \in AfterFailedRelease : crawlers' = SetCur("browser", st)
    /\ cw' = "raised"
    /\ UNCHANGED OtherVars

\* close(), lines 95-98: "if hasattr(self, 'playwright'): await self.playwright.stop()";
\* then __aexit__ returns None and an exception of the body goes on
StopPlaywright ==
    /\ cw \in {"stop", "stop_exc"}
    /\ crawlers' = IF Cur.playwright = "open" THEN SetCur("playwright", "closed") ELSE crawlers
    /\ cw' = IF cw = "stop" THEN "returned" ELSE "raised"
    /\ UNCHANGED OtherVars

StopPlaywrightRaises ==
    /\ cw \in {"stop", "stop_exc"}
    /\ Cur.playwright = "open"
    /\ \E st \in AfterFailedRelease : crawlers' = SetCur("playwright", st)
    /\ cw' = "raised"
    /\ UNCHANGED OtherVars

NextCrawler ==
    \/ EnterCrawler
    \/ StartPlaywright \/ StartPlaywrightRaises
    \/ LaunchBrowser \/ LaunchBrowserRaises
    \/ NewContext \/ NewContextRaises
    \/ NewPage \/ NewPageRaises
    \/ BodyReturns \/ BodyRaises
    \/ ClosePage \/ ClosePageRaises
    \/ CloseContext \/ CloseContextRaises
    \/ CloseBrowser \/ CloseBrowserRaises
    \/ StopPlaywright \/ StopPlaywrightRaises

SpecCrawler == Init /\ [][NextCrawler]_vars

----------------------------------------------------------------------------
(* sync_and_validate.py: DataValidator.validate, DataSyncer.sync, main *)

\* a price check that lets the price 0 pass
MissingPricesNegativeOnly(tbl) == {p \in tbl : p.price < 0}

\* "(Product.price == None) | (Product.price <= 0)"
MissingPrices(tbl) == {p \in tbl : p.price <= 0}

\* "(Product.sku == None) | (Product.sku == '')"
MissingSkus(tbl) == {p \in tbl : p.sku = NoSku}

\* "Product.price < 0"
InvalidPrices(tbl) == {p \in tbl : p.price < 0}

\* "(Product.name == None) | (Product.name == '')"
MissingNames(tbl) == {p \in tbl : p.name = NoName}

\* "group_by(Product.sku).having(func.count(Product.id) > 1)"
DuplicateSkus(tbl) == {p.sku : p \in {q \in tbl : \E o \in tbl : o.sku = q.sku /\ o.id # q.id}}

\* "~ProductHistory.product_id.in_(db.query(Product.id))"
OrphanedHistory(tbl, hist) == {i \in DOMAIN hist : hist[i].product_id \notin Ids(tbl)}

Found(S) == IF S = {} THEN 0 ELSE 1

\* len(self.issues) when the checks are done: one entry per critical check
\* that found rows; none when the table is empty (early return, line 80)
Issues(tbl) ==
    IF tbl = {} THEN 0
    ELSE Found(MissingPrices(tbl)) + Found(MissingSkus(tbl)) + Found(InvalidPrices(tbl))

\* len(self.warnings): one entry per warning check that found rows (the
\* check of lidl_product_id is not modelled)
Warnings(tbl, hist) ==
    IF tbl = {} THEN 0
    ELSE Found(MissingNames(tbl)) + Found(DuplicateSkus(tbl)) + Found(OrphanedHistory(tbl, hist))

\* validate() of a fresh DataValidator: False for an empty table and when a
\* critical check found rows (self.issues), True otherwise
Validate(tbl) ==
    /\ tbl # {}
    /\ MissingPrices(tbl) = {}
    /\ MissingSkus(tbl) = {}
    /\ InvalidPrices(tbl) = {}

\* a main() that goes on to sync whatever validate returned
SyncAbortedNever(validation_passed) == FALSE

\* main(): "if not validation_passed: ... return 1"
SyncAborted(validation_passed) == ~validation_passed

\* a loop that copies every row
SyncSkipsNothing(p) == FALSE

\* "if not product.sku or not product.price or product.price <= 0"
SyncSkipsInvalid(p) == p.sku = NoSku \/ p.price = 0 \/ p.price <= 0

EmptySync == [out |-> <<>>, seen |-> {}, synced |-> 0, skipped |-> 0]

\* the loop "for product in lidl_products" over the rows in id order
RECURSIVE SyncLoop(_, _, _)
SyncLoop(rows, acc, t) ==
    IF rows = {} THEN acc
    ELSE LET p == CHOOSE q \in rows : \A o \in rows : q.id <= o.id
             rest == rows \ {p}
         IN  IF SyncSkipsInvalid(p) \/ p.sku \in acc.seen
             THEN SyncLoop(rest, [acc EXCEPT !.skipped = @ + 1], t)
             ELSE SyncLoop(rest,
                     [acc EXCEPT !.seen = @ \cup {p.sku},
                                 !.synced = @ + 1,
                                 !.out = Append(@,
                                     [id |-> Len(@) + 1, sku |-> p.sku,
                                      name |-> IF p.name = NoName THEN "Unknown" ELSE p.name,
                                      price |-> p.price,
                                      first_seen |-> IF p.first_seen = Null THEN t ELSE p.first_seen,
                                      last_updated |-> t,
                                      last_scraped |-> IF p.last_scraped = Null THEN t ELSE p.last_scraped])],
                     t)

\* the products a successful sync leaves in the master store
SyncedProducts(tbl, t) ==
    LET res == SyncLoop(tbl, EmptySync, t) IN {res.out[i] : i \in DOMAIN res.out}

\* a copy of the run rows that leaves out the error text
SyncedRunsWithoutErrors(rs) == [i \in DOMAIN rs |-> [rs[i] EXCEPT !.errors = ""]]

\* the run rows a successful sync leaves in the master store (metadata only)
SyncedRuns(rs) == rs

\* master_db.query(Product).delete()
DeleteAll(tbl) == {}

Master == [products |-> mProducts, history |-> mHistory, runs |-> mRuns]

\* validator = DataValidator(); validation_passed = validator.validate()
MainValidate ==
    /\ pl.pc = "start"
    /\ LET ok == Validate(products)
       IN  pl' = [pl EXCEPT !.validation = IF ok THEN "passed" ELSE "failed",
                            !.issues = Issues(products),
                            !.warnings = Warnings(products, history),
                            !.validated = products,
                            !.pc = IF SyncAborted(ok) THEN "exit" ELSE "clear",
                            !.exit = IF SyncAborted(ok) THEN 1 ELSE @]
    /\ UNCHANGED <<stagingVars, crawlVars, browserVars, toolVars, masterVars, mPrev>>

\* a query of validate() raises: the exception leaves main(), the process
\* ends with a non-zero status
MainValidateRaises ==
    /\ pl.pc = "start"
    /\ pl' = [pl EXCEPT !.pc = "exit", !.exit = 1]
    /\ UNCHANGED <<stagingVars, crawlVars, browserVars, toolVars, masterVars, mPrev>>

\* a clear whose product delete runs on the staging session
SyncClearStaging ==
    /\ pl.pc = "clear"
    /\ mPrev' = Master
    /\ products' = DeleteAll(products)
    /\ mHistory' = <<>>
    /\ mRuns' = <<>>
    /\ pl' = [pl EXCEPT !.pc = "load", !.syncCalls = @ + 1]
    /\ UNCHANGED <<history, runs, crawlVars, browserVars, toolVars, mProducts>>

\* sync(), lines 205-215: delete the three master tables and commit
SyncClear ==
    /\ pl.pc = "clear"
    /\ mPrev' = Master
    /\ mProducts' = DeleteAll(mProducts)
    /\ mHistory' = <<>>
    /\ mRuns' = <<>>
    /\ pl' = [pl EXCEPT !.pc = "load", !.syncCalls = @ + 1]
    /\ UNCHANGED <<stagingVars, crawlVars, browserVars, toolVars>>

\* a delete or the commit of line 214 raises: rollback, return False
SyncClearRaises ==
    /\ pl.pc = "clear"
    /\ mPrev' = Master
    /\ pl' = [pl EXCEPT !.pc = "exit", !.exit = 1, !.syncCalls = @ + 1]
    /\ UNCHANGED <<stagingVars, crawlVars, browserVars, toolVars, masterVars>>

\* sync(), lines 217-270: read the staging products, add the clean ones, commit
SyncProducts ==
    /\ pl.pc = "load"
    /\ LET res == SyncLoop(products, EmptySync, now)
       IN  /\ mProducts' = mProducts \cup {res.out[i] : i \in DOMAIN res.out}
           /\ pl' = [pl EXCEPT !.pc = "runs",
                                !.synced_count = @ + res.synced,
                                !.skipped_count = @ + res.skipped]
    /\ UNCHANGED <<stagingVars, crawlVars, browserVars, toolVars, mHistory, mRuns, mPrev>>

\* the staging query of line 219 raises (counted = FALSE) or the commit of
\* line 267 raises (counted = TRUE): rollback, return False
SyncProductsRaises ==
    /\ pl.pc = "load"
    /\ \E counted \in BOOLEAN :
          LET res == SyncLoop(products, EmptySync, now)
          IN  pl' = [pl EXCEPT !.pc = "exit", !.exit = 1,
                               !.synced_count = IF counted THEN @ + res.synced ELSE @,
                               !.skipped_count = IF counted THEN @ + res.skipped ELSE @]
    /\ UNCHANGED <<stagingVars, crawlVars, browserVars, toolVars, masterVars, mPrev>>

\* sync(), lines 272-297: copy the run rows, commit, return True
SyncRuns ==
    /\ pl.pc = "runs"
    /\ mRuns' = mRuns \o SyncedRuns(runs)
    /\ pl' = [pl EXCEPT !.pc = "exit", !.exit = 0]
    /\ UNCHANGED <<stagingVars, crawlVars, browserVars, toolVars, mProducts, mHistory, mPrev>>

\* the staging query of line 274 or the commit of line 286 raises
SyncRunsRaises ==
    /\ pl.pc = "runs"
    /\ pl' = [pl EXCEPT !.pc = "exit", !.exit = 1]
    /\ UNCHANGED <<stagingVars, crawlVars, browserVars, toolVars, masterVars, mPrev>>

\* A staging store as a pipeline run can find it: per SKU value at most one
\* row (the column is unique), each with a price that is positive or not.
StagedRow(id, sku, name, price) ==
    [id |-> id, sku |-> sku, name |-> name, price |-> price,
     first_seen |-> 1, last_updated |-> 1, last_scraped |-> 1]

StagedPrices == {0, 1}

StagedTables ==
    {ra \cup rb \cup rn :
        ra \in {{}} \cup {{StagedRow(1, "a", SomeName, p)} : p \in StagedPrices},
        rb \in {{}} \cup {{StagedRow(2, "b", n, 1)} : n \in {SomeName, NoName}},
        rn \in {{}} \cup {{StagedRow(3, NoSku, SomeName, p)} : p \in StagedPrices}}

\* history rows in staging: none, or one whose product is gone
StagedHistories ==
    {<<>>, <<[product_id |-> 9, sku |-> "c", price |-> 1, run_id |-> 1, scraped_at |-> 1]>>}

CompletedRun ==
    [status |-> "completed", start_time |-> 1, end_time |-> 1,
     products_found |-> 1, products_new |-> 1, products_updated |-> 0, errors |-> ""]

\* the master store before the pipeline runs: empty, or an earlier snapshot
EarlierMasters ==
    {EmptyStore,
     [products |-> {StagedRow(1, "a", SomeName, 2)}, history |-> <<>>, runs |-> <<CompletedRun>>]}

InitSync ==
    /\ products \in StagedTables
    /\ history \in StagedHistories
    /\ runs \in {<<>>, <<CompletedRun>>}
    /\ now = 2
    /\ sc = [s \in Scrapers |-> IdleScraper]
    /\ pageAccepted = [i \in DOMAIN runs |-> 0]
    /\ savedCalls = [k \in Skus |-> 0]
    /\ \E m \in EarlierMasters :
          /\ mProducts = m.products
          /\ mHistory = m.history
          /\ mRuns = m.runs
          /\ mPrev = m
    /\ pl = IdlePipeline
    /\ crawlers = <<>>
    /\ cw = "idle"
    /\ ToolsIdle

\* sync_and_validate.py is run again after it ended, at a later time, with a
\* new DataValidator and a new DataSyncer
MainAgain ==
    /\ pl.pc = "exit"
    /\ pl.run < MaxPipelineRuns
    /\ pl' = [IdlePipeline EXCEPT !.run = pl.run + 1, !.prior = (pl.exit = 0)]
    /\ now' = now + 1
    /\ UNCHANGED <<stagingVars, sc, pageAccepted, savedCalls, masterVars, mPrev, browserVars, toolVars>>

PipelineStep ==
    \/ MainValidate \/ MainValidateRaises
    \/ SyncClear \/ SyncClearRaises
    \/ SyncProducts \/ SyncProductsRaises
    \/ SyncRuns \/ SyncRunsRaises

NextSync == PipelineStep \/ MainAgain

SpecSync == InitSync /\ [][NextSync]_vars

\* DataSyncer().sync() called on its own, over any staging store
InitSyncer ==
    /\ products \in StagedTables
    /\ history \in StagedHistories
    /\ runs \in {<<>>, <<CompletedRun>>}
    /\ now = 2
    /\ sc = [s \in Scrapers |-> IdleScraper]
    /\ pageAccepted = [i \in DOMAIN runs |-> 0]
    /\ savedCalls = [k \in Skus |-> 0]
    /\ \E m \in EarlierMasters :
          /\ mProducts = m.products
          /\ mHistory = m.history
          /\ mRuns = m.runs
          /\ mPrev = m
    /\ pl = [IdlePipeline EXCEPT !.pc = "clear"]
    /\ crawlers = <<>>
    /\ cw = "idle"
    /\ ToolsIdle

NextSyncer ==
    \/ SyncClear \/ SyncClearRaises
    \/ SyncProducts \/ SyncProductsRaises
    \/ SyncRuns \/ SyncRunsRaises

SpecSyncer == InitSyncer /\ [][NextSyncer]_vars

\* a crawl started with --max-pages 1 while sync_and_validate.py runs
NextPipe ==
    \/ RunOnePage("s1") \/ RunOnePageFails("s1")
    \/ AttemptPage("s1")
    \/ PipelineStep

SpecPipe == InitSync /\ [][NextPipe]_vars

\* A caller that keeps one DataValidator and one DataSyncer and calls them
\* more than once, while an operator repairs the staging store in between

\* sync calls of the one DataSyncer
MaxSyncCalls == 2
\* entries of each of the lists self.issues and self.warnings of the one
\* DataValidator
MaxIssues == 3

\* len(self.issues) after validate() ran on an object whose list had n
\* entries: the early return of line 80 adds nothing, the checks append
IssuesAfter(n, tbl) == n + Issues(tbl)

\* what validate() returns on that object: False for an empty table, else
\* "if self.issues: ... return False", "if not self.issues: ... return True"
ValidateOn(n, tbl) == tbl # {} /\ IssuesAfter(n, tbl) = 0

\* validator.validate() on the object the caller keeps
ValidateCall ==
    /\ pl.pc \in {"start", "called", "exit"}
    /\ IssuesAfter(pl.issues, products) <= MaxIssues
    /\ pl.warnings + Warnings(products, history) <= MaxIssues
    /\ pl' = [pl EXCEPT !.pc = "called",
                        !.validation = IF ValidateOn(pl.issues, products)
                                       THEN "passed" ELSE "failed",
                        !.issues = IssuesAfter(pl.issues, products),
                        !.warnings = @ + Warnings(products, history),
                        !.validated = products]
    /\ UNCHANGED <<stagingVars, crawlVars, browserVars, toolVars, masterVars, mPrev>>

\* the rows validate() counts as critical are repaired by hand: a row without
\* SKU is deleted, a price that is not positive is set
RepairStaging ==
    /\ pl.pc = "called" /\ pl.validation = "failed"
    /\ products' = {[p EXCEPT !.price = IF p.price <= 0 THEN 1 ELSE p.price] :
                       p \in products \ MissingSkus(products)}
    /\ UNCHANGED <<history, runs, crawlVars, browserVars, toolVars, syncVars>>

\* syncer.sync() on the object the caller keeps
SyncCall ==
    /\ pl.pc \in {"start", "called", "exit"}
    /\ pl.syncCalls < MaxSyncCalls
    /\ pl' = [pl EXCEPT !.pc = "clear", !.exit = -1]
    /\ UNCHANGED <<stagingVars, crawlVars, browserVars, toolVars, masterVars, mPrev>>

NextReuse ==
    \/ ValidateCall \/ RepairStaging \/ SyncCall
    \/ SyncClear \/ SyncClearRaises
    \/ SyncProducts \/ SyncProductsRaises
    \/ SyncRuns \/ SyncRunsRaises

SpecReuse == InitSync /\ [][NextReuse]_vars

\* every variable but rd
NotReader == <<products, history, runs, now, sc, pageAccepted, savedCalls,
               mProducts, mHistory, mRuns, mPrev, pl, crawlers, cw, nav, ex, vp, cfg, lp, rc, sch>>

\* The read API (src/api/main.py) while sync_and_validate.py runs: a request
\* gets a session of the master store from get_db and answers from what is
\* committed there when it reads; during is where the pipeline was then
ApiRead ==
    /\ rd' = [pc |-> "answered", during |-> pl.pc, seen |-> Master, before |-> mPrev]
    /\ UNCHANGED NotReader

NextRead == PipelineStep \/ ApiRead

SpecRead == InitSync /\ [][NextRead]_vars

----------------------------------------------------------------------------
(* LidlCrawler.navigate and LidlCrawler._handle_cookie_consent *)

\* every variable but nav
NotNav == <<products, history, runs, now, sc, pageAccepted, savedCalls,
            mProducts, mHistory, mRuns, mPrev, pl, crawlers, cw, ex, vp, cfg, lp, rc, rd, sch>>

\* the wait_until values of the three page.goto calls, in the order of the code
Layers == <<"domcontentloaded", "load", "commit">>

\* the methods list of _handle_cookie_consent, in the order of the code
ConsentMethods == <<"accept_js", "reject_js", "click">>

Logged(what, outcome) == [nav EXCEPT !.log = Append(nav.log, <<what, outcome>>)]

\* navigate(url) is entered: the outer try
NavigateCall ==
    /\ nav.pc = "idle"
    /\ nav' = [nav EXCEPT !.pc = "cookies"]
    /\ UNCHANGED NotNav

\* context.add_cookies returns
AddCookies ==
    /\ nav.pc = "cookies"
    /\ nav' = [Logged("cookies", "ok") EXCEPT !.pc = Layers[1]]
    /\ UNCHANGED NotNav

\* the inner except of the cookie block, fatal
AddCookiesRaisesFatal ==
    /\ nav.pc = "cookies"
    /\ nav' = [Logged("cookies", "raised") EXCEPT !.pc = "returned", !.result = "false"]
    /\ UNCHANGED NotNav

\* context.add_cookies raises: the inner except logs it and goes on
AddCookiesRaises ==
    /\ nav.pc = "cookies"
    /\ nav' = [Logged("cookies", "raised") EXCEPT !.pc = Layers[1]]
    /\ UNCHANGED NotNav

\* page.goto(url, wait_until=Layers[i]) returns: sleep(3), then the consent
\* banner
Goto(i) ==
    /\ nav.pc = Layers[i]
    /\ nav' = [Logged(Layers[i], "ok") EXCEPT !.pc = "consent", !.method = 1]
    /\ UNCHANGED NotNav

\* page.goto raises or times out: the except of that layer tries the next
\* one; the third goto has no except of its own, the outer one returns False
GotoRaises(i) ==
    /\ nav.pc = Layers[i]
    /\ nav' = IF i < Len(Layers)
              THEN [Logged(Layers[i], "failed") EXCEPT !.pc = Layers[i + 1]]
              ELSE [Logged(Layers[i], "failed") EXCEPT !.pc = "returned", !.result = "false"]
    /\ UNCHANGED NotNav

\* after the loop over the methods ("No cookie consent popup found"), or
\* after the return inside it, navigate logs success and returns True
AfterMethod(n, found) ==
    IF found \/ n.method = Len(ConsentMethods)
    THEN [n EXCEPT !.pc = "returned", !.method = 0, !.result = "true"]
    ELSE [n EXCEPT !.method = n.method + 1]

\* one of the two page.evaluate methods returns true (the button was
\* clicked) or false (no button)
EvaluateReturns(found) ==
    /\ nav.pc = "consent"
    /\ nav.method \in {1, 2}
    /\ nav' = AfterMethod(Logged(ConsentMethods[nav.method], IF found THEN "true" ELSE "false"), found)
    /\ UNCHANGED NotNav

\* an exception of a method ends the loop over the methods
EvaluateRaisesStops ==
    /\ nav.pc = "consent"
    /\ nav.method \in {1, 2}
    /\ nav' = [Logged(ConsentMethods[nav.method], "raised")
                 EXCEPT !.pc = "returned", !.method = 0, !.result = "true"]
    /\ UNCHANGED NotNav

\* page.evaluate raises: except Exception ... continue
EvaluateRaises ==
    /\ nav.pc = "consent"
    /\ nav.method \in {1, 2}
    /\ nav' = AfterMethod(Logged(ConsentMethods[nav.method], "raised"), FALSE)
    /\ UNCHANGED NotNav

\* _try_click_selector: True when a visible button was clicked, False when
\* there is none
TryClickSelector(found) ==
    /\ nav.pc = "consent"
    /\ nav.method = 3
    /\ nav' = AfterMethod(Logged(ConsentMethods[3], IF found THEN "true" ELSE "false"), found)
    /\ UNCHANGED NotNav

\* _try_click_selector: query_selector, is_visible or click raises; the bare
\* except makes it return False
TryClickSelectorRaises ==
    /\ nav.pc = "consent"
    /\ nav.method = 3
    /\ nav' = AfterMethod(Logged(ConsentMethods[3], "false"), FALSE)
    /\ UNCHANGED NotNav

NextNav ==
    \/ NavigateCall
    \/ AddCookies \/ AddCookiesRaises
    \/ \E i \in DOMAIN Layers : Goto(i) \/ GotoRaises(i)
    \/ \E found \in BOOLEAN : EvaluateReturns(found) \/ TryClickSelector(found)
    \/ EvaluateRaises
    \/ TryClickSelectorRaises

SpecNav == Init /\ [][NextNav]_vars

----------------------------------------------------------------------------
(* utils/validators.py: validate_price and clean_text *)

\* every variable but vp
NotValidators == <<products, history, runs, now, sc, pageAccepted, savedCalls,
                   mProducts, mHistory, mRuns, mPrev, pl, crawlers, cw, nav, ex, cfg, lp, rc, rd, sch>>

\* a str is a sequence of characters; these name the characters that are not
\* written as themselves
Euro == "EUR"
Dollar == "USD"
Pound == "GBP"
Space == " "
Newline == "NL"
Tab == "TAB"
CarriageReturn == "CR"

\* the class [€$£] of validate_price
Currency == {Euro, Dollar, Pound}
\* the class \s, which is also what str.strip() removes
Whitespace == {Space, Newline, Tab, CarriageReturn}
\* the class \d, with the value int() gives each digit
DigitVal == [c \in {"0", "1", "2", "4", "5", "9"} |->
               CASE c = "0" -> 0 [] c = "1" -> 1 [] c = "2" -> 2
                 [] c = "4" -> 4 [] c = "5" -> 5 [] c = "9" -> 9]
IsDigit(c) == c \in DOMAIN DigitVal

\* an argument or a result that may be None
NoneText == [none |-> TRUE, text |-> <<>>]
Text(s) == [none |-> FALSE, text |-> s]

\* a float result n/d, d a power of ten, or None
NoPrice == [none |-> TRUE, num |-> 0, den |-> 1]

RECURSIVE Pow10(_)
Pow10(n) == IF n = 0 THEN 1 ELSE 10 * Pow10(n - 1)

RECURSIVE DigitsValue(_)
DigitsValue(d) ==
    IF d = <<>> THEN 0
    ELSE 10 * DigitsValue(SubSeq(d, 1, Len(d) - 1)) + DigitVal[d[Len(d)]]

\* float("<int>") and float("<int>.<frac>")
Float(int, frac) ==
    [none |-> FALSE, num |-> DigitsValue(int \o frac), den |-> Pow10(Len(frac))]

\* re.sub(r'[...]', '', s)
RemoveAll(s, class) ==
    LET Keep(c) == c \notin class
    IN SelectSeq(s, Keep)

\* s.replace(from, to) for one character
ReplaceChar(s, from, to) == [i \in DOMAIN s |-> IF s[i] = from THEN to ELSE s[i]]

\* s.strip() that strips nothing
StripNothing(s) == s

\* s.strip()
Strip(s) ==
    LET Inner == {i \in DOMAIN s : s[i] \notin Whitespace}
        Lo == CHOOSE i \in Inner : \A j \in Inner : i <= j
        Hi == CHOOSE i \in Inner : \A j \in Inner : j <= i
    IN IF Inner = {} THEN <<>> ELSE SubSeq(s, Lo, Hi)

\* the index of the first digit of s, 0 when there is none: where the
\* leftmost match of \d+ starts
FirstDigit(s) ==
    LET Ds == {i \in DOMAIN s : IsDigit(s[i])}
    IN IF Ds = {} THEN 0 ELSE CHOOSE i \in Ds : \A j \in Ds : i <= j

\* the end of the longest run of digits that starts at i (i - 1 when s[i] is
\* no digit): \d+ and \d* are greedy
RunEnd(s, i) ==
    CHOOSE j \in (i - 1)..Len(s) :
        /\ \A k \in i..j : IsDigit(s[k])
        /\ j = Len(s) \/ ~IsDigit(s[j + 1])

\* price_str.replace(',', '.') left out
KeepComma(s) == s

\* price_str.replace(',', '.')
CommaToDot(s) == ReplaceChar(s, ",", ".")

\* validate_price(price_str)
ValidatePrice(p) ==
    IF p.none \/ p.text = <<>> THEN NoPrice
    ELSE LET t == CommaToDot(Strip(RemoveAll(p.text, Currency)))
             i == FirstDigit(t)
         IN IF i = 0 THEN NoPrice
            ELSE LET j == RunEnd(t, i)
                     dot == j < Len(t) /\ t[j + 1] = "."
                     k == IF dot THEN RunEnd(t, j + 2) ELSE j
                     frac == IF dot THEN SubSeq(t, j + 2, k) ELSE <<>>
                 IN Float(SubSeq(t, i, j), frac)

\* re.sub(r'\s+', ' ', text): every maximal run of whitespace becomes one space
RECURSIVE CollapseWhitespace(_)
CollapseWhitespace(s) ==
    IF s = <<>> THEN <<>>
    ELSE IF s[1] \in Whitespace
         THEN IF Len(s) > 1 /\ s[2] \in Whitespace
              THEN CollapseWhitespace(Tail(s))
              ELSE <<Space>> \o CollapseWhitespace(Tail(s))
         ELSE <<s[1]>> \o CollapseWhitespace(Tail(s))

\* clean_text(text)
CleanText(x) ==
    IF x.none \/ x.text = <<>> THEN <<>>
    ELSE ReplaceChar(ReplaceChar(ReplaceChar(
             Strip(CollapseWhitespace(x.text)),
             Newline, Space), CarriageReturn, Space), Tab, Space)

\* the longest argument of the calls that are enumerated
MaxTextLen == 3

PriceAlphabet == {"1", "0", ",", ".", Euro, Space, "-", "a"}
TextAlphabet == {Space, Newline, Tab, "a", "b"}

SeqsUpTo(A, n) == UNION {[1..k -> A] : k \in 0..n}

\* the arguments of the tests of TestValidatePrice and TestCleanText
TestedPrices ==
    {<<"1", "2", ",", "9", "9", Space, Euro>>,
     <<Euro, "1", "2", ".", "9", "9">>,
     <<"1", "9", ".", "9", "9">>,
     <<Space, Space, "2", "4", ",", "5", "0", Space, Euro, Space, Space>>,
     <<"a", "a", "a">>}
TestedTexts ==
    {<<"a", Space, Space, Space, "b">>,
     <<Space, Space, "a", Space, "b", Space, Space>>,
     <<"a", Newline, "b">>,
     <<"a", Tab, "b">>}

ValidatorCalls ==
    {[pc |-> "called", fn |-> "validate_price", arg |-> a, out |-> NoPrice, again |-> <<>>] :
        a \in {NoneText} \cup {Text(t) : t \in TestedPrices \cup SeqsUpTo(PriceAlphabet, MaxTextLen)}}
    \cup
    {[pc |-> "called", fn |-> "clean_text", arg |-> a, out |-> <<>>, again |-> <<>>] :
        a \in {NoneText} \cup {Text(t) : t \in TestedTexts \cup SeqsUpTo(TextAlphabet, MaxTextLen)}}

InitValidators ==
    /\ ProgramIdle
    /\ nav = IdleNav /\ ex = IdleExtractor /\ cfg = IdleConfig /\ lp = IdleLoop /\ rc = IdleRecrawl /\ rd = IdleReader /\ sch = IdleSched
    /\ vp \in ValidatorCalls

ValidatePriceReturns ==
    /\ vp.pc = "called" /\ vp.fn = "validate_price"
    /\ vp' = [vp EXCEPT !.pc = "returned", !.out = ValidatePrice(vp.arg)]
    /\ UNCHANGED NotValidators

CleanTextReturns ==
    /\ vp.pc = "called" /\ vp.fn = "clean_text"
    /\ vp' = [vp EXCEPT !.pc = "returned", !.out = CleanText(vp.arg)]
    /\ UNCHANGED NotValidators

\* clean_text is called on the text it returned
CleanTextAgain ==
    /\ vp.pc = "returned" /\ vp.fn = "clean_text"
    /\ vp' = [vp EXCEPT !.pc = "cleaned_again", !.again = CleanText(Text(vp.out))]
    /\ UNCHANGED NotValidators

NextValidators == ValidatePriceReturns \/ CleanTextReturns \/ CleanTextAgain

SpecValidators == InitValidators /\ [][NextValidators]_vars

----------------------------------------------------------------------------
(* utils/config_loader.py: load_config, get_config and _config_cache *)

\* every variable but cfg
NotConfig == <<products, history, runs, now, sc, pageAccepted, savedCalls,
               mProducts, mHistory, mRuns, mPrev, pl, crawlers, cw, nav, ex, vp, lp, rc, rd, sch>>

\* calls of load_config and get_config in one process
MaxConfigCalls == 3

\* what config/config.yaml is when it is looked at: not there, a file
\* without a document (yaml.safe_load gives None), a mapping, or no YAML
FileKinds == {"missing", "empty", "mapping", "malformed"}

\* the value None, and the dict made by the n-th read of the file: every
\* yaml.safe_load of a mapping makes a new object
NoConfig == [none |-> TRUE, id |-> 0]
ConfigObject(n) == [none |-> FALSE, id |-> n]

\* the module was imported: _config_cache = None
InitConfig ==
    /\ ProgramIdle
    /\ nav = IdleNav /\ ex = IdleExtractor /\ vp = IdleValidator /\ lp = IdleLoop /\ rc = IdleRecrawl /\ rd = IdleReader /\ sch = IdleSched
    /\ \E f \in FileKinds :
          cfg = [pc |-> "imported", file |-> f, cache |-> NoConfig, reads |-> 0,
                 calls |-> 0, returned |-> <<>>, raised |-> 0]

Returned(c, value) ==
    [c EXCEPT !.calls = c.calls + 1, !.returned = Append(c.returned, value)]
Raised(c) ==
    [c EXCEPT !.calls = c.calls + 1, !.raised = c.raised + 1]

\* load_config(config_path): the cache when it is not None; else
\* FileNotFoundError when the file is missing; else the file is opened and
\* parsed into _config_cache, which is returned
LoadConfigOf(c) ==
    IF ~c.cache.none THEN Returned(c, c.cache)
    ELSE IF c.file = "missing" THEN Raised(c)
    ELSE LET read == [c EXCEPT !.reads = c.reads + 1]
         IN CASE c.file = "malformed" -> Raised(read)
              [] c.file = "empty" -> Returned([read EXCEPT !.cache = NoConfig], NoConfig)
              [] c.file = "mapping" ->
                    Returned([read EXCEPT !.cache = ConfigObject(read.reads)],
                             ConfigObject(read.reads))

LoadConfig ==
    /\ cfg.calls < MaxConfigCalls
    /\ cfg' = LoadConfigOf(cfg)
    /\ UNCHANGED NotConfig

\* get_config(): load_config() when the cache is None, else the cache
GetConfig ==
    /\ cfg.calls < MaxConfigCalls
    /\ cfg' = IF cfg.cache.none THEN LoadConfigOf(cfg) ELSE Returned(cfg, cfg.cache)
    /\ UNCHANGED NotConfig

\* the file is written, replaced or removed between two calls
ConfigFileWritten ==
    /\ \E f \in FileKinds \ {cfg.file} : cfg' = [cfg EXCEPT !.file = f]
    /\ UNCHANGED NotConfig

NextConfig == LoadConfig \/ GetConfig \/ ConfigFileWritten

SpecConfig == InitConfig /\ [][NextConfig]_vars

----------------------------------------------------------------------------
(* scraper/extractor.py: ProductExtractor.extract_products *)

\* every variable but ex
NotExtractor == <<products, history, runs, now, sc, pageAccepted, savedCalls,
                  mProducts, mHistory, mRuns, mPrev, pl, crawlers, cw, nav, vp, cfg, lp, rc, rd, sch>>

\* cards in the pages handed to one extractor
MaxCards == 2

\* float values: n, and nan (0/0), which compares False with everything
Num(n) == [none |-> FALSE, num |-> n, den |-> 1]
NaN == [none |-> FALSE, num |-> 0, den |-> 0]
\* price <= 0
Leq0(p) == p.den > 0 /\ p.num <= 0

\* the values of the keys "name", "price" and "id" of a payload
JsonAbsent == [kind |-> "absent", value |-> NoPrice, text |-> <<>>]
JsonNumber(v) == [kind |-> "number", value |-> v, text |-> <<>>]
JsonString(t) == [kind |-> "str", value |-> NoPrice, text |-> t]
JsonList == [kind |-> "list", value |-> NoPrice, text |-> <<>>]

\* the attribute data-gridbox-impression of an element: not there, empty, no
\* JSON, JSON that is no object, or an object
NoAttribute == [kind |-> "absent", name |-> JsonAbsent, price |-> JsonAbsent, id |-> 0]
EmptyAttribute == [kind |-> "empty", name |-> JsonAbsent, price |-> JsonAbsent, id |-> 0]
Malformed == [kind |-> "malformed", name |-> JsonAbsent, price |-> JsonAbsent, id |-> 0]
NonObject == [kind |-> "nonobject", name |-> JsonAbsent, price |-> JsonAbsent, id |-> 0]
Object(name, price, id) == [kind |-> "object", name |-> name, price |-> price, id |-> id]

\* an element of the page: its attribute, whether the product_card selector
\* matches it, and the text of the elements inside it that the selectors of
\* the fields product_name and price find (None: no such element)
Card(attr, tile, name_text, price_text) ==
    [attr |-> attr, tile |-> tile, name_text |-> name_text, price_text |-> price_text]

\* scraper.fields of the configuration: the name and the price of a card
FieldLists ==
    {<<[name |-> "product_name", type |-> "text", required |-> TRUE],
       [name |-> "price", type |-> "price", required |-> r]>> : r \in BOOLEAN}

\* the sku of a record: None, "LIDL-<id>" or "LIDL-<digest>"
NoneSku == [none |-> TRUE, id |-> 0, digest |-> <<>>]
IdSku(i) == [none |-> FALSE, id |-> i, digest |-> <<>>]
DigestSku(d) == [none |-> FALSE, id |-> 0, digest |-> d]

\* float(price) of a str: digits give their value, "nan" gives nan, anything
\* else raises ValueError (None here)
FloatOfStr(t) ==
    IF t = <<"n", "a", "n">> THEN NaN
    ELSE IF t # <<>> /\ \A i \in DOMAIN t : IsDigit(t[i]) THEN Float(t, <<>>)
    ELSE NoPrice

\* lines 94-102: the price of the payload as a float; 0 when the key is
\* missing or null and when float() raises ValueError or TypeError
JsonPrice(v) ==
    CASE v.kind = "absent" -> Num(0)
      [] v.kind = "number" -> v.value
      [] v.kind = "str" -> IF FloatOfStr(v.text).none THEN Num(0) ELSE FloatOfStr(v.text)
      [] v.kind = "list" -> Num(0)

\* lines 81-130: what the structured branch does with a payload that
\* json.loads accepted: AttributeError for a payload without .get and for a
\* name without .encode, None for an empty name, else the record
JsonProduct(attr) ==
    IF attr.kind = "nonobject" \/ attr.name.kind \in {"number", "list"}
    THEN [outcome |-> "raised", via |-> "json",
          product |-> [product_name |-> NoneText, price |-> NoPrice, sku |-> NoneSku]]
    ELSE LET product == [product_name |-> Text(attr.name.text),
                         price |-> JsonPrice(attr.price),
                         sku |-> IF attr.id # 0 THEN IdSku(attr.id) ELSE NoneSku]
         IN [outcome |-> IF attr.name.text # <<>> THEN "product" ELSE "none",
             via |-> "json", product |-> product]

DigitChar == [n \in 0..9 |->
                CASE n = 0 -> "0" [] n = 1 -> "1" [] n = 2 -> "2" [] n = 3 -> "3"
                  [] n = 4 -> "4" [] n = 5 -> "5" [] n = 6 -> "6" [] n = 7 -> "7"
                  [] n = 8 -> "8" [] n = 9 -> "9"]

RECURSIVE DigitsOf(_)
DigitsOf(n) == IF n < 10 THEN <<DigitChar[n]>> ELSE DigitsOf(n \div 10) \o <<DigitChar[n % 10]>>

\* the digits of r/den after the point, den a power of ten
RECURSIVE FractionDigits(_, _)
FractionDigits(r, den) ==
    IF den = 1 THEN <<>>
    ELSE <<DigitChar[r \div (den \div 10)]>> \o FractionDigits(r % (den \div 10), den \div 10)

\* the float n/d keeps no trailing zeros of the text it was read from
RECURSIVE Reduced(_)
Reduced(p) ==
    IF p.den > 1 /\ p.num % 10 = 0
    THEN Reduced([p EXCEPT !.num = p.num \div 10, !.den = p.den \div 10])
    ELSE p

\* the digits of the text the price was read from, as they were written
StrOfFloatAsWritten(p) ==
    DigitsOf(p.num \div p.den) \o <<".">> \o
        (IF p.den = 1 THEN <<"0">> ELSE FractionDigits(p.num % p.den, p.den))

\* str(price) of a float that is not negative: "2.0", "2.5", "12.99"
StrOfFloat(p) ==
    LET q == Reduced(p)
    IN DigitsOf(q.num \div q.den) \o <<".">> \o
           (IF q.den = 1 THEN <<"0">> ELSE FractionDigits(q.num % q.den, q.den))

\* f"{name}" and str(price) of a value that may be None
StrOfNone == <<"N", "o", "n", "e">>

\* _generate_sku: "LIDL-" and the first 12 hex digits of the md5 of
\* f"{name}{price}"; the digest is modelled by the text it is taken of
GenerateSku(product) ==
    DigestSku((IF product.product_name.none THEN StrOfNone ELSE product.product_name.text)
              \o (IF product.price.none THEN StrOfNone ELSE StrOfFloat(product.price)))

\* the value of a field whose element is not in the card
NoField == [none |-> TRUE, text |-> <<>>, price |-> NoPrice]
\* the value of a field of type price, v what validate_price returned
PriceField(v) == [none |-> v.none, text |-> <<>>, price |-> v]
\* the value of a field of type text, t what clean_text returned
TextField(t) == [none |-> FALSE, text |-> t, price |-> NoPrice]

\* _extract_field: None without the element, else clean_text or
\* validate_price of its text
ExtractField(card, field) ==
    LET text == IF field.name = "product_name" THEN card.name_text ELSE card.price_text
    IN IF text.none THEN NoField
       ELSE IF field.type = "price" THEN PriceField(ValidatePrice(text))
            ELSE TextField(CleanText(text))

\* product[field['name']] after the loop over the fields: the value of the
\* field of that name, None when the configuration has no such field
FieldNamed(card, fields, name) ==
    IF \A i \in DOMAIN fields : fields[i].name # name THEN NoField
    ELSE ExtractField(card, fields[CHOOSE i \in DOMAIN fields : fields[i].name = name])

\* lines 160-161: product['sku'] = self._generate_sku(product)
WithSku(product) == [product EXCEPT !.sku = GenerateSku(product)]

\* lines 135-163, n and pr the values read for the name and the price:
\* None when a required field has no value, else the record with its sku
MarkupRecord(n, pr, missing) ==
    [outcome |-> IF missing THEN "none" ELSE "product",
     via |-> "markup",
     product |-> WithSku([product_name |-> IF n.none THEN NoneText ELSE Text(n.text),
                          price |-> pr.price,
                          sku |-> NoneSku])]

\* lines 135-163: the fields of the configuration are read from the markup
\* of the card; a required field without a value gives None; the record gets
\* a generated sku
MarkupProduct(card, fields) ==
    MarkupRecord(FieldNamed(card, fields, "product_name"),
                 FieldNamed(card, fields, "price"),
                 \E i \in DOMAIN fields :
                     fields[i].required /\ ExtractField(card, fields[i]).none)

\* the markup is read only for the cards of a page without any payload
\* attribute
FallsBackOnEmptyPage(attr) == attr.kind = "absent"

\* lines 80-81 and 132-136: the markup is read when the card has no payload
\* attribute or an empty one, and when json.loads raises JSONDecodeError
FallsBack(attr) == attr.kind \in {"absent", "empty", "malformed"}

\* _extract_product_from_card
ExtractProductFromCard(card, fields) ==
    IF FallsBack(card.attr) THEN MarkupProduct(card, fields)
    ELSE JsonProduct(card.attr)

\* _validate_product that looks at the name only
ValidateProductNameOnly(product) ==
    ~product.product_name.none /\ product.product_name.text # <<>>

\* _validate_product
ValidateProduct(product) ==
    /\ ~product.product_name.none /\ product.product_name.text # <<>>
    /\ ~product.price.none
    /\ ~Leq0(product.price)

\* lines 44-51: the elements with the payload attribute; when there is none,
\* the elements the product_card selector matches
ProductCards(page) ==
    LET Structured(c) == c.attr.kind # "absent"
        Tile(c) == c.tile
    IN IF SelectSeq(page, Structured) # <<>> THEN SelectSeq(page, Structured)
       ELSE SelectSeq(page, Tile)

T(s) == Text(s)
NoText == NoneText
ValidMarkup(attr) == Card(attr, TRUE, T(<<"a", Space, "b">>), T(<<"2", ".", "5">>))
NoMarkup(attr) == Card(attr, TRUE, NoText, NoText)
SomeText == JsonString(<<"n">>)

\* the cards the pages are made of
Cards ==
    {\* tiles without a payload
     Card(NoAttribute, TRUE, T(<<"a", Space, "b">>), T(<<"2", ",", "5", "0", Space, Euro>>)),
     Card(NoAttribute, TRUE, T(<<"a", Space, Space, "b">>), T(<<"2", ".", "5">>)),
     Card(NoAttribute, TRUE, T(<<"a">>), T(<<"0">>)),
     Card(NoAttribute, TRUE, NoText, T(<<"2", ".", "5">>)),
     Card(NoAttribute, TRUE, T(<<Space>>), T(<<"2", ".", "5">>)),
     Card(NoAttribute, TRUE, T(<<"a">>), T(<<"a">>)),
     Card(NoAttribute, TRUE, T(<<"a">>), NoText),
     Card(NoAttribute, FALSE, T(<<"a">>), T(<<"2">>)),
     \* elements with a payload
     NoMarkup(Object(SomeText, JsonNumber(Num(2)), 7)),
     NoMarkup(Object(SomeText, JsonAbsent, 7)),
     NoMarkup(Object(SomeText, JsonString(<<"x">>), 7)),
     NoMarkup(Object(SomeText, JsonString(<<"2">>), 0)),
     NoMarkup(Object(SomeText, JsonString(<<"n", "a", "n">>), 7)),
     NoMarkup(Object(SomeText, JsonList, 7)),
     NoMarkup(Object(SomeText, JsonNumber(Num(-1)), 7)),
     NoMarkup(Object(SomeText, JsonNumber(Num(0)), 7)),
     NoMarkup(Object(JsonAbsent, JsonNumber(Num(2)), 7)),
     NoMarkup(Object(JsonNumber(Num(5)), JsonNumber(Num(2)), 7)),
     ValidMarkup(Object(SomeText, JsonAbsent, 7)),
     NoMarkup(NonObject),
     ValidMarkup(NonObject),
     NoMarkup(Malformed),
     ValidMarkup(Malformed),
     ValidMarkup(EmptyAttribute)}

\* the pages of a crawl: one page of up to MaxCards cards, or that many pages
\* of one card
Crawls ==
    {<<page>> : page \in SeqsUpTo(Cards, MaxCards)}
    \cup {[i \in 1..MaxCards |-> <<cards[i]>>] : cards \in [1..MaxCards -> Cards]}

\* ProductExtractor() was made with some field list, and the crawl will hand
\* it some pages
InitExtract ==
    /\ ProgramIdle
    /\ nav = IdleNav /\ vp = IdleValidator /\ cfg = IdleConfig /\ lp = IdleLoop /\ rc = IdleRecrawl /\ rd = IdleReader /\ sch = IdleSched
    /\ \E fields \in FieldLists, pages \in Crawls :
          ex = [pc |-> "made", fields |-> fields, pages |-> pages, structured |-> FALSE,
                cards |-> <<>>, idx |-> 1, out |-> <<>>, trace |-> <<>>, earlier |-> {}]

\* extract_products(html) is called on the next page: the cards are selected
ExtractProducts ==
    /\ ex.pc \in {"made", "returned"}
    /\ ex.pages # <<>>
    /\ ex' = [ex EXCEPT !.pc = "loop",
                        !.pages = Tail(ex.pages),
                        !.structured = \E i \in DOMAIN Head(ex.pages) :
                                           Head(ex.pages)[i].attr.kind # "absent",
                        !.cards = ProductCards(Head(ex.pages)),
                        !.idx = 1, !.out = <<>>, !.trace = <<>>,
                        !.earlier = ex.earlier \cup {ex.out[i] : i \in DOMAIN ex.out}]
    /\ UNCHANGED NotExtractor

\* what the card under the loop gives
Extracted == ExtractProductFromCard(ex.cards[ex.idx], ex.fields)

\* the loop moves on to the next card; r is what this one gave
Traced(r, outcome) ==
    [ex EXCEPT !.idx = ex.idx + 1,
               !.trace = Append(ex.trace, [via |-> r.via, outcome |-> outcome])]

\* one turn of the loop: the record of the card is valid and is appended
ExtractCardAppends ==
    /\ ex.pc = "loop" /\ ex.idx <= Len(ex.cards)
    /\ \E r \in {Extracted} :
          /\ r.outcome = "product" /\ ValidateProduct(r.product)
          /\ ex' = [Traced(r, "appended") EXCEPT !.out = Append(ex.out, r.product)]
    /\ UNCHANGED NotExtractor

\* one turn of the loop: the card gave None or a record that is not valid
ExtractCardSkips ==
    /\ ex.pc = "loop" /\ ex.idx <= Len(ex.cards)
    /\ \E r \in {Extracted} :
          /\ \/ r.outcome = "none"
             \/ r.outcome = "product" /\ ~ValidateProduct(r.product)
          /\ ex' = Traced(r, "skipped")
    /\ UNCHANGED NotExtractor

\* one turn of the loop: the card raised, and nothing catches it before the
\* caller of extract_products
ExtractCardRaisesAborts ==
    /\ ex.pc = "loop" /\ ex.idx <= Len(ex.cards)
    /\ Extracted.outcome = "raised"
    /\ ex' = [ex EXCEPT !.pc = "raised", !.out = <<>>]
    /\ UNCHANGED NotExtractor

\* one turn of the loop: the card raised, the except of the loop logs it
ExtractCardRaises ==
    /\ ex.pc = "loop" /\ ex.idx <= Len(ex.cards)
    /\ \E r \in {Extracted} :
          /\ r.outcome = "raised"
          /\ ex' = Traced(r, "raised")
    /\ UNCHANGED NotExtractor

\* the loop is over: return products
ExtractReturns ==
    /\ ex.pc = "loop" /\ ex.idx > Len(ex.cards)
    /\ ex' = [ex EXCEPT !.pc = "returned"]
    /\ UNCHANGED NotExtractor

NextExtract ==
    \/ ExtractProducts
    \/ ExtractCardAppends \/ ExtractCardSkips \/ ExtractCardRaises
    \/ ExtractReturns

SpecExtract == InitExtract /\ [][NextExtract]_vars

----------------------------------------------------------------------------
(* LidlScraper.scrape, the loop "while True", with LidlCrawler.click_element, *)
(* has_next_page and throttle: one attempt against a site that answers every  *)
(* request as it likes                                                        *)

\* every variable but lp
NotLoop == <<products, history, runs, now, sc, pageAccepted, savedCalls,
             mProducts, mHistory, mRuns, mPrev, pl, crawlers, cw, nav, ex, vp, cfg, rc, rd, sch>>

\* scraper.throttling of the configuration: the defaults of throttle(), and
\* an interval the operator configured
ThrottleConfigs == {[min_delay |-> 1, max_delay |-> 3], [min_delay |-> 4, max_delay |-> 5]}

\* "await asyncio.sleep(2)  # Wait for products to load"
LoadWait == 2

\* page_count as far as "page_count >= self.max_pages" can tell its values
\* apart: every count above the largest cap compares like the cap plus one
Counted(n) == IF n > MaxPagesCfg THEN MaxPagesCfg + 1 ELSE n

\* the attempt is about to enter the loop: page_count = 0 (line 111).
\* html_next: the content read last holds the load-more control; fresh: the
\* page changed since the content was read last; click: what the last
\* click_element returned; path: how the last click that went through was
\* made; pauses: the pauses since that click, up to the next request to the
\* browser (requested)
LoopStart(mp, th) ==
    [pc |-> "iterate", max_pages |-> mp, throttling |-> th, page_count |-> 0,
     html_next |-> FALSE, fresh |-> TRUE, repeated |-> FALSE,
     click |-> "none", path |-> "none", pauses |-> <<>>, requested |-> FALSE]

InitLoop ==
    /\ ProgramIdle
    /\ nav = IdleNav /\ ex = IdleExtractor /\ vp = IdleValidator /\ cfg = IdleConfig /\ rc = IdleRecrawl /\ rd = IdleReader /\ sch = IdleSched
    /\ \E mp \in Caps, th \in ThrottleConfigs : lp = LoopStart(mp, th)

\* a request to the browser (query_selector, evaluate, content, click)
Requested(l) == [l EXCEPT !.requested = TRUE]

\* a pause; the ones up to the next request after a click are kept
Paused(l, kind, secs) ==
    IF l.path # "none" /\ ~l.requested
    THEN [l EXCEPT !.pauses = Append(@, [kind |-> kind, secs |-> secs])]
    ELSE l

\* click_element returns False (lines 266-268, 292-294) or the evaluate of
\* the fallback returns false: the page is as it was
ClickFailed(l) == [l EXCEPT !.pc = "after_click", !.click = "false"]

\* a click went through and the site loaded further products or did not
Clicked(l, path, more) ==
    [l EXCEPT !.path = path, !.pauses = <<>>, !.requested = FALSE,
              !.fresh = l.fresh \/ more]

\* lines 116-120: page_count += 1 and scroll_page(), which logs what it
\* catches
Iterate ==
    /\ lp.pc = "iterate"
    /\ lp' = [Requested(lp) EXCEPT !.pc = "content", !.page_count = Counted(@ + 1)]
    /\ UNCHANGED NotLoop

\* lines 123-137: the content is read, the records are extracted and saved;
\* has says whether the content holds the load-more control
ExtractPage(has) ==
    /\ lp.pc = "content"
    /\ lp' = [Requested(lp) EXCEPT !.pc = "check", !.html_next = has,
                                   !.repeated = ~lp.fresh, !.fresh = FALSE]
    /\ UNCHANGED NotLoop

\* get_page_content, extract_products or _save_products raises: the except
\* block of scrape marks the run failed
ExtractPageRaises ==
    /\ lp.pc = "content"
    /\ lp' = [Requested(lp) EXCEPT !.pc = "failed"]
    /\ UNCHANGED NotLoop

\* lines 140-149: the two break conditions; the run is marked completed
\* after a break
CheckPagination ==
    /\ lp.pc = "check"
    /\ lp' = [lp EXCEPT !.pc = IF ~lp.html_next \/ CapReached(lp)
                                THEN "completed" ELSE "has_next"]
    /\ UNCHANGED NotLoop

\* has_next_page, lines 157-164: the control is there, or it is not (or the
\* query raised) and the loop breaks
HasNextPage(found) ==
    /\ lp.pc = "has_next"
    /\ lp' = [Requested(lp) EXCEPT !.pc = IF found THEN "query" ELSE "completed"]
    /\ UNCHANGED NotLoop

\* click_element, lines 262-268: query_selector finds the element or not
ClickQuery(found) ==
    /\ lp.pc = "query"
    /\ lp' = IF found THEN [Requested(lp) EXCEPT !.pc = "visible"]
             ELSE ClickFailed(Requested(lp))
    /\ UNCHANGED NotLoop

\* lines 271-273: is_visible
ClickVisible(visible) ==
    /\ lp.pc = "visible"
    /\ lp' = [Requested(lp) EXCEPT !.pc = IF visible THEN "direct" ELSE "fallback"]
    /\ UNCHANGED NotLoop

\* a request of click_element raises: "except Exception", return False
ClickRaises ==
    /\ lp.pc \in {"query", "visible", "direct", "fallback"}
    /\ lp' = ClickFailed(Requested(lp))
    /\ UNCHANGED NotLoop

\* line 287: element.click()
ClickDirect(more) ==
    /\ lp.pc = "direct"
    /\ lp' = [Clicked(Requested(lp), "direct", more) EXCEPT !.pc = "throttle"]
    /\ UNCHANGED NotLoop

\* throttle(): random.uniform(min_delay, max_delay) and the sleep; then lines
\* 289-290: return True
Throttle ==
    /\ lp.pc = "throttle"
    /\ \E delay \in lp.throttling.min_delay..lp.throttling.max_delay :
          lp' = [Paused(lp, "throttle", delay) EXCEPT !.pc = "after_click", !.click = "true"]
    /\ UNCHANGED NotLoop

\* lines 274-285: the element is not visible, the script clicks the nearest
\* clickable ancestor or the element and click_element returns what the
\* script returned
ClickFallback(clicked, more) ==
    /\ lp.pc = "fallback"
    /\ lp' = IF clicked
             THEN [Clicked(Requested(lp), "fallback", more) EXCEPT
                       !.pc = "after_click", !.click = "true"]
             ELSE ClickFailed(Requested(lp))
    /\ UNCHANGED NotLoop

\* lines 159-161: what click_element returned is dropped; sleep, scroll, and
\* the loop starts over
AfterClick ==
    /\ lp.pc = "after_click"
    /\ lp' = [Requested(Paused(lp, "sleep", LoadWait)) EXCEPT !.pc = "iterate"]
    /\ UNCHANGED NotLoop

NextLoop ==
    \/ Iterate
    \/ \E has \in BOOLEAN : ExtractPage(has)
    \/ ExtractPageRaises
    \/ CheckPagination
    \/ \E found \in BOOLEAN : HasNextPage(found)
    \/ \E found \in BOOLEAN : ClickQuery(found)
    \/ \E visible \in BOOLEAN : ClickVisible(visible)
    \/ ClickRaises
    \/ \E more \in BOOLEAN : ClickDirect(more)
    \/ Throttle
    \/ \E clicked, more \in BOOLEAN : ClickFallback(clicked, more)
    \/ AfterClick

SpecLoop == InitLoop /\ [][NextLoop]_vars

\* the coroutine of the attempt is always resumed: no step that can be taken
\* is put off for ever
SpecLoopFair == SpecLoop /\ WF_vars(NextLoop)

----------------------------------------------------------------------------
(* Two crawls of one product: extract_products and _save_products, the      *)
(* second crawl after the shop changed the price or left it as it was       *)

\* every variable the crawls of the product leave alone
NotRecrawl == <<runs, sc, pageAccepted, savedCalls,
                mProducts, mHistory, mRuns, mPrev, pl, crawlers, cw, nav, ex, vp, cfg, lp, rd, sch>>

\* the prices the shop shows, as the digits before and after the point
ShopPrices == {<<<<"2">>, <<>>>>, <<<<"2">>, <<"5">>>>, <<<<"4">>, <<>>>>}
\* the names of the product
ShopNames == {<<"a">>, <<"a", Space, "b">>, <<"b">>}
\* the card carries the payload attribute with an id, or only markup
Strategies == {"structured", "markup"}

\* the card of the product at a price
ShopCard(strategy, name, price) ==
    IF strategy = "structured"
    THEN Card(Object(JsonString(name), JsonNumber(Float(price[1], price[2])), 7),
              TRUE, NoneText, NoneText)
    ELSE Card(NoAttribute, TRUE, Text(name),
              Text(price[1] \o (IF price[2] = <<>> THEN <<>> ELSE <<",">> \o price[2])
                   \o <<Space, Euro>>))

\* line 56 of extract_products: the record is kept when it is valid
Kept(r) == IF r.outcome = "product" /\ ValidateProduct(r.product) THEN <<r.product>> ELSE <<>>

\* extract_products over the cards of a page that raise nothing
RECURSIVE ExtractedFrom(_, _)
ExtractedFrom(cards, fields) ==
    IF cards = <<>> THEN <<>>
    ELSE Kept(ExtractProductFromCard(Head(cards), fields)) \o ExtractedFrom(Tail(cards), fields)

\* the characters of a str put together
RECURSIVE Join(_)
Join(chars) == IF chars = <<>> THEN "" ELSE Head(chars) \o Join(Tail(chars))

\* product_data.get("sku") as _save_products compares it: None is falsy like
\* '', else f"LIDL-{lidl_product_id}" or f"LIDL-{hash_value}"
SkuStr(sku) ==
    IF sku.none THEN NoSku
    ELSE "LIDL-" \o (IF sku.id # 0 THEN Join(DigitsOf(sku.id)) ELSE Join(sku.digest))

\* the record as _save_products reads it
SaveRecord(product) == [sku |-> SkuStr(product.sku), price |-> product.price]

InitRecrawl ==
    /\ ProgramIdle
    /\ nav = IdleNav /\ ex = IdleExtractor /\ vp = IdleValidator /\ cfg = IdleConfig /\ rd = IdleReader /\ sch = IdleSched
    /\ lp = IdleLoop
    /\ \E strategy \in Strategies, name \in ShopNames, first, second \in ShopPrices,
          fields \in FieldLists :
          rc = [pc |-> "extract", crawl |-> 1, strategy |-> strategy, name |-> name,
                prices |-> <<first, second>>, fields |-> fields,
                records |-> <<>>, stats |-> <<>>]

\* scrape, lines 122-127: the page of the crawl shows the product at the
\* price of the day; extract_products returns its records
CrawlExtracts ==
    /\ rc.pc = "extract"
    /\ rc' = [rc EXCEPT !.pc = "save",
                        !.records = ExtractedFrom(
                            ProductCards(<<ShopCard(rc.strategy, rc.name, rc.prices[rc.crawl])>>),
                            rc.fields)]
    /\ UNCHANGED <<products, history, now, NotRecrawl>>

\* the stats and the writes of the save of the crawl (lines 131-137: only
\* when there are records)
CrawlTx ==
    IF rc.records = <<>> THEN EmptyTx
    ELSE SaveLoop([i \in DOMAIN rc.records |-> SaveRecord(rc.records[i])],
                  Len(rc.records), products, rc.crawl, now, UsedIds)

\* _save_products commits; the next crawl is made at a later time
CrawlSaves ==
    /\ rc.pc = "save"
    /\ products' = ApplyRows(products, CrawlTx)
    /\ history' = history \o CrawlTx.hist
    /\ now' = now + 1
    /\ rc' = [rc EXCEPT !.pc = IF rc.crawl = 1 THEN "extract" ELSE "done",
                        !.crawl = IF rc.crawl = 1 THEN 2 ELSE 2,
                        !.stats = Append(@, CrawlTx.stats)]
    /\ UNCHANGED NotRecrawl

NextRecrawl == CrawlExtracts \/ CrawlSaves

SpecRecrawl == InitRecrawl /\ [][NextRecrawl]_vars

(***************************************************************************)
(* The scheduler: run_scheduler registers the daily job, runs one crawl at *)
(* startup and then polls the job every minute.  A crawl is scrape() under *)
(* its retry decorator: up to MaxAttempts attempts, after which the error  *)
(* of the last one is raised to scheduled_scrape.  The time of day is      *)
(* counted in ticks of one sleep; the job falls due when the clock passes  *)
(* the mark of the day, and the run of the job sets its next due time.     *)
(***************************************************************************)
NotSched == <<products, history, runs, now, sc, pageAccepted, savedCalls,
              mProducts, mHistory, mRuns, mPrev, pl, crawlers, cw, nav, ex, vp, cfg, lp, rc, rd>>

\* ticks of one day
DayTicks == 4

\* run_scheduler is entered at any time of day; the job is registered next
SchedulerStart(t) ==
    [pc |-> "configure", tod |-> t, due |-> FALSE, origin |-> "none",
     attempt |-> 0, startup |-> "pending", caught |-> FALSE]

InitSched ==
    /\ ProgramIdle
    /\ nav = IdleNav /\ ex = IdleExtractor /\ vp = IdleValidator /\ cfg = IdleConfig
    /\ lp = IdleLoop /\ rc = IdleRecrawl /\ rd = IdleReader
    /\ \E t \in 0 .. DayTicks - 1 : sch = SchedulerStart(t)

\* the clock after d ticks; the job is due once the mark of the day is passed
Elapsed(s, d) ==
    [s EXCEPT !.tod = (s.tod + d) % DayTicks,
              !.due = s.due \/ s.tod + d >= DayTicks]

\* asyncio.run(scheduled_scrape()): the first attempt of scrape() begins
CrawlStarted(s, origin) ==
    [s EXCEPT !.pc = "crawl", !.origin = origin, !.attempt = 1,
              !.startup = IF origin = "startup" THEN "running" ELSE @]

\* scheduled_scrape is over: the startup call returns to the loop, the job
\* returns to run_pending, which sets the next due time from the clock
ScrapeReturned(s, outcome) ==
    IF s.origin = "startup"
    THEN [s EXCEPT !.pc = "poll", !.origin = "none", !.attempt = 0, !.startup = outcome]
    ELSE [s EXCEPT !.pc = "sleep", !.origin = "none", !.attempt = 0, !.due = FALSE]

\* the error leaves scheduled_scrape and run_scheduler with it
ExceptNone(s, outcome) == [s EXCEPT !.pc = "stopped"]
\* "except Exception as e": the error is logged and the call returns
ExceptException(s, outcome) == [ScrapeReturned(s, outcome) EXCEPT !.caught = TRUE]

\* schedule.every().day.at("02:00").do(...), then the crawl at startup
Configure ==
    /\ sch.pc = "configure"
    /\ sch' = CrawlStarted(sch, "startup")
    /\ UNCHANGED NotSched

\* an attempt of scrape() returns its statistics
CrawlCompletes(d) ==
    /\ sch.pc = "crawl"
    /\ sch' = ScrapeReturned(Elapsed(sch, d), "completed")
    /\ UNCHANGED NotSched

\* an attempt raises and the decorator waits and calls scrape() again
CrawlRetries(d) ==
    /\ sch.pc = "crawl"
    /\ sch.attempt < MaxAttempts
    /\ sch' = [Elapsed(sch, d) EXCEPT !.attempt = @ + 1]
    /\ UNCHANGED NotSched

\* the last attempt raises: the decorator gives up and raises to scheduled_scrape
CrawlExhausted(d) ==
    /\ sch.pc = "crawl"
    /\ sch.attempt = MaxAttempts
    /\ sch' = ExceptException(Elapsed(sch, d), "failed")
    /\ UNCHANGED NotSched

\* an attempt without a page cap whose pagination loop does not end
CrawlHangs ==
    /\ sch.pc = "crawl"
    /\ sch' = [sch EXCEPT !.pc = "hung"]
    /\ UNCHANGED NotSched

\* schedule.run_pending(): a due job is run, otherwise nothing is
RunPending ==
    /\ sch.pc = "poll"
    /\ sch' = IF sch.due THEN CrawlStarted(sch, "job") ELSE [sch EXCEPT !.pc = "sleep"]
    /\ UNCHANGED NotSched

\* time.sleep(60)
Sleep ==
    /\ sch.pc = "sleep"
    /\ sch' = [Elapsed(sch, 1) EXCEPT !.pc = "poll"]
    /\ UNCHANGED NotSched

NextSched ==
    \/ Configure
    \/ \E d \in 0 .. DayTicks : CrawlCompletes(d) \/ CrawlRetries(d) \/ CrawlExhausted(d)
    \/ CrawlHangs
    \/ RunPending
    \/ Sleep

SpecSched == InitSched /\ [][NextSched]_vars

\* the process is not starved, and a sleep ends
SpecSchedFair == SpecSched /\ WF_vars(NextSched)

----------------------------------------------------------------------------
(* Properties *)

HistoryOfRun(r) == {i \in DOMAIN history : history[i].run_id = r}
HistoryOfSku(h, k) == {i \in DOMAIN h : h[i].sku = k}
RowsOfSku(tbl, k) == {p \in tbl : p.sku = k}
BatchIdx(b, k) == {i \in DOMAIN b : b[i].sku = k}
FirstIdx(b, k) == CHOOSE i \in BatchIdx(b, k) : \A j \in BatchIdx(b, k) : i <= j
SkusOf(b) == {b[i].sku : i \in DOMAIN b} \ {NoSku}

\* C1: when a sync call has ended, whether it succeeded or failed at any step,
\* the master store either holds the complete new snapshot (the clean staging
\* products, the staging run rows, no history) or is exactly as it was when
\* sync was called.
C1_SyncAllOrNothing ==
    (pl.pc = "exit" /\ pl.syncCalls > 0) =>
        \/ Master = mPrev
        \/ /\ mProducts = SyncedProducts(products, now)
           /\ mRuns = SyncedRuns(runs)
           /\ mHistory = <<>>

\* C2: sync is invoked only after validate returned true in the same pipeline
\* invocation; when validate returned false, sync is not invoked, the master
\* store is unchanged and the pipeline ends with exit status 1.
C2_SyncOnlyAfterValidation ==
    /\ (pl.syncCalls > 0 \/ pl.pc \in {"clear", "load", "runs"}) => pl.validation = "passed"
    /\ pl.validation = "failed" =>
          /\ pl.syncCalls = 0
          /\ pl.pc = "exit"
          /\ pl.exit = 1
          /\ Master = mPrev

\* a pipeline that refused to sync over a non-empty staging store with a
\* critical row, the master store holding an earlier snapshot
C2_Witness ==
    /\ pl.pc = "exit"
    /\ pl.validation = "failed"
    /\ MissingPrices(products) # {}
    /\ \E p \in products : p.price > 0 /\ p.sku # NoSku
    /\ mProducts # {}

\* C3: for every attempt that ended completed or failed, the number of history
\* rows tagged with its run_id equals the number of records accepted by the
\* page saves of that attempt.
C3_HistoryRowsMatchPageSaves ==
    \A r \in DOMAIN runs :
        runs[r].status \in {"completed", "failed"} =>
            Cardinality(HistoryOfRun(r)) = pageAccepted[r]

\* C4: a run row is created with status running and end_time null; its status
\* changes at most once, from running to completed or failed; a row that is
\* completed or failed is never changed again.
C4_RunStatusChangesOnce ==
    [][/\ \A i \in DOMAIN runs :
             /\ i \in DOMAIN runs'
             /\ runs[i].status # "running" => runs'[i] = runs[i]
             /\ runs'[i].status # runs[i].status =>
                    runs'[i].status \in {"completed", "failed"}
       /\ \A i \in DOMAIN runs' \ DOMAIN runs :
             runs'[i].status = "running" /\ runs'[i].end_time = Null]_vars

\* a failed run, then a retry attempt that has completed its own run
C4_Witness ==
    \E i, j \in DOMAIN runs :
        i < j /\ runs[i].status = "failed" /\ runs[j].status = "completed"

\* C5: whenever an attempt has ended, by returning or by raising, the run row
\* it created is completed or failed and has an end_time.
C5_EndedAttemptRunIsTerminal ==
    \A s \in Scrapers :
        (sc[s].pc \in {"retry", "returned", "raised"} /\ sc[s].run_id # 0) =>
            /\ runs[sc[s].run_id].status \in {"completed", "failed"}
            /\ runs[sc[s].run_id].end_time # Null

\* C6: a save call is atomic. While its loop runs nothing reaches the tables;
\* when it raises (at record k or at the commit) the tables are as before and
\* the exception is with the caller (the except block of scrape for a page
\* save, the guarded salvage for a salvage save); when it returns, all its
\* product rows and history rows reach the tables in that one step.
C6_SaveIsAtomic ==
    [][\A s \in Scrapers :
          LET l == sc[s]
              m == sc'[s]
          IN  /\ (l.pc = "save" /\ m # l) =>
                     products' = products /\ history' = history
              /\ (l.pc \in {"save", "commit"} /\ m # l /\ m.failedAt # 0) =>
                     /\ products' = products /\ history' = history
                     /\ m.tx = EmptyTx
                     /\ IF l.salvage THEN m.pc = "failrun"
                        ELSE m.pc = "save" /\ m.salvage
              /\ (l.pc = "commit" /\ m # l /\ m.failedAt = 0) =>
                     /\ \A r \in l.tx.rows : r \in products'
                     /\ history' = history \o l.tx.hist
                     /\ m.pc \in {"paginate", "failrun"}]_vars

\* the first page save raised at its second record or later, after its first
\* record had inserted a product, and the tables hold nothing
C6_Witness ==
    \E s \in Scrapers :
        /\ sc[s].failedAt >= 2
        /\ sc[s].pc = "save" /\ sc[s].salvage
        /\ sc[s].page_count = 1
        /\ sc[s].all_products[1].sku # NoSku
        /\ products = {} /\ history = <<>>

\* C7: in the writes of one save call, every SKU of the submitted records has
\* exactly one product row and one history row, both carrying the values of
\* the first record with that SKU; the later records with that SKU are counted
\* as batch duplicates and only the first ones as new or updated.
C7_FirstRecordOfSkuWins ==
    \A s \in Scrapers :
        sc[s].pc = "commit" =>
            LET b == sc[s].batch
                tx == sc[s].tx
            IN  /\ \A k \in SkusOf(b) :
                      /\ Cardinality(HistoryOfSku(tx.hist, k)) = 1
                      /\ Cardinality(RowsOfSku(tx.rows, k)) = 1
                      /\ \A i \in HistoryOfSku(tx.hist, k) :
                            tx.hist[i].price = b[FirstIdx(b, k)].price
                      /\ \A r \in RowsOfSku(tx.rows, k) :
                            r.price = b[FirstIdx(b, k)].price
                /\ tx.stats.new + tx.stats.updated = Cardinality(SkusOf(b))
                /\ tx.stats.dups =
                      Cardinality({i \in DOMAIN b : b[i].sku # NoSku}) - Cardinality(SkusOf(b))
                /\ Len(tx.hist) = Cardinality(SkusOf(b))

\* a save call whose batch repeats a SKU with another price
C7_Witness ==
    \E s \in Scrapers :
        /\ sc[s].pc = "commit"
        /\ sc[s].tx.stats.dups >= 1
        /\ \E i, j \in DOMAIN sc[s].batch :
              /\ i < j
              /\ sc[s].batch[i].sku = sc[s].batch[j].sku
              /\ sc[s].batch[i].price # sc[s].batch[j].price

\* C8: a save call that commits a record whose SKU exists with the same price
\* keeps the one product row of that SKU with its id and first_seen, stamps
\* last_scraped and last_updated with the time of the call, counts the record
\* as updated and adds exactly one history row for the SKU; over all calls the
\* history rows of a SKU number the committed calls that accepted it.
C8_ResaveUnchanged ==
    /\ [][\A s \in Scrapers :
             LET l == sc[s]
                 m == sc'[s]
             IN  (l.pc = "commit" /\ m # l /\ m.failedAt = 0) =>
                    \A k \in SkusOf(l.batch) : \A p \in RowsOfSku(products, k) :
                        p.price = l.batch[FirstIdx(l.batch, k)].price =>
                           /\ RowsOfSku(products', k) =
                                 {[p EXCEPT !.last_scraped = now, !.last_updated = now]}
                           /\ Cardinality(HistoryOfSku(history', k)) =
                                 Cardinality(HistoryOfSku(history, k)) + 1
                           /\ l.tx.stats.updated >= 1
                           /\ l.tx.stats.new + l.tx.stats.updated = Cardinality(SkusOf(l.batch))]_vars
    /\ [](\A k \in Skus : Cardinality(HistoryOfSku(history, k)) = savedCalls[k])

\* a SKU saved by two committed calls with the same price, the second call
\* later than the first
C8_Witness ==
    \E p \in products :
        /\ savedCalls[p.sku] = 2
        /\ p.first_seen < p.last_scraped
        /\ p.last_updated = p.last_scraped
        /\ \A i \in HistoryOfSku(history, p.sku) : history[i].price = p.price

\* C9: the staging store never holds two product rows with the same SKU.
C9_OneRowPerSku ==
    \A p, q \in products : p.sku = q.sku => p = q

\* a save call about to commit the insert of a SKU that another process has
\* committed since this call looked the SKU up
C9_Witness ==
    \E s \in Scrapers :
        /\ sc[s].pc = "commit"
        /\ \E r \in sc[s].tx.rows :
              /\ r.id \in sc[s].tx.insIds
              /\ \E p \in products : p.sku = r.sku

\* C10: every history row's product_id is the id of a product row, and no step
\* changes or removes a history row that exists.
C10_HistoryRefersToProduct ==
    /\ [](\A i \in DOMAIN history : \E p \in products : p.id = history[i].product_id)
    /\ [][/\ Len(history') >= Len(history)
          /\ SubSeq(history', 1, Len(history)) = history]_vars

\* history rows of two products, written by several save calls
C10_Witness ==
    /\ Len(history) >= 3
    /\ \E i, j \in DOMAIN history : history[i].product_id # history[j].product_id

\* C11: when an attempt has ended by raising, every record that the page saves
\* of the attempt accepted before the failure has a product row with its SKU
\* and a history row with its SKU and price tagged with the run_id of the
\* attempt.
C11_SavedPagesSurviveFailure ==
    \A s \in Scrapers :
        (sc[s].pc \in {"retry", "raised"} /\ sc[s].run_id # 0) =>
            \A r \in sc[s].accepted :
                /\ \E p \in products : p.sku = r.sku
                /\ \E i \in HistoryOfRun(sc[s].run_id) :
                      history[i].sku = r.sku /\ history[i].price = r.price

\* an attempt that saved its first page, failed on its second page and ended
\* with a salvage save that failed as well
C11_Witness ==
    \E s \in Scrapers :
        /\ sc[s].pc \in {"retry", "raised"}
        /\ sc[s].page_count = 2
        /\ sc[s].accepted # {}
        /\ sc[s].failedAt # 0
        /\ runs[sc[s].run_id].status = "failed"

\* C12: when an exception occurs in an attempt after its run row was created,
\* the except block first tries the salvage save, then marks the run failed
\* with the error text, then lets the exception reach the retry policy; a
\* salvage save that fails leads on to the finalisation; the run is marked
\* failed only after the salvage save has ended.
C12_HandlerOrder ==
    [][\A s \in Scrapers :
          LET l == sc[s]
              m == sc'[s]
              inAttempt == l.run_id # 0 /\ l.pc \notin {"idle", "retry", "returned", "raised"}
          IN  /\ (inAttempt /\ l.salvage /\ l.pc \in {"save", "commit"} /\ m # l) =>
                     m.pc \in {"commit", "failrun"}
              /\ (inAttempt /\ m.pc \in {"retry", "raised"}) =>
                     /\ l.pc = "failrun"
                     /\ runs'[l.run_id].status = "failed"
                     /\ runs'[l.run_id].errors # ""
              /\ (inAttempt /\ runs[l.run_id].status # "failed"
                            /\ runs'[l.run_id].status = "failed") =>
                     l.pc = "failrun"]_vars

C14_PagesWithinCap ==
    /\ [](\A s \in Scrapers :
            sc[s].max_pages # NoCap => sc[s].page_count <= sc[s].max_pages)
    /\ [][\A s \in Scrapers :
             LET l == sc[s]
                 m == sc'[s]
             IN  /\ (m.attempt = l.attempt /\ m.page_count # l.page_count) =>
                        l.pc = "page" /\ m.page_count = l.page_count + 1
                 /\ (l.pc = "paginate" /\ m.pc = "page") =>
                        (l.max_pages = NoCap \/ l.page_count < l.max_pages)]_vars

\* C15: when an attempt has ended, by returning or by raising, the crawler of
\* that attempt holds no open page, context, browser or driver; this covers
\* the attempts that ended in start and those that ended in a release step.
C15_CrawlerReleased ==
    \A i \in DOMAIN crawlers :
        (i < Len(crawlers) \/ cw \in {"returned", "raised"}) =>
            /\ crawlers[i].page # "open"
            /\ crawlers[i].context # "open"
            /\ crawlers[i].browser # "open"
            /\ crawlers[i].playwright # "open"

\* a product row with a critical violation: SKU missing or empty, price
\* missing or not positive
Critical(p) == p.sku = NoSku \/ p.price = Null \/ p.price <= 0

\* C16: validate returns false whenever a staging product has a critical
\* violation and true whenever none has, whatever the number of products and
\* of warnings.
C16_ValidateIffNoCritical ==
    pl.validation # "none" =>
        (pl.validation = "passed" <=> ~\E p \in pl.validated : Critical(p))

\* C16 as amended: validate returns true exactly when the staging store holds
\* at least one product and no product has a critical violation; the warnings
\* it collected do not count.
C16_ValidateNonEmptyNoCritical ==
    pl.validation # "none" =>
        /\ pl.validation = "passed" <=>
               (pl.validated # {} /\ ~\E p \in pl.validated : Critical(p))
        /\ pl.validation = "failed" <=>
               (pl.validated = {} \/ \E p \in pl.validated : Critical(p))

\* validate passed over two products with two kinds of warnings (a missing
\* name, an orphaned history row)
C16_Witness ==
    /\ pl.validation = "passed"
    /\ pl.warnings >= 2
    /\ Cardinality(pl.validated) >= 2
    /\ pl.issues = 0

\* C17: after a successful sync the number of products in the master store
\* equals the number of distinct SKUs among the staging products that have a
\* non-empty SKU and a price > 0.
C17_MasterCountIsValidSkus ==
    (pl.pc = "exit" /\ pl.exit = 0) =>
        Cardinality(mProducts) =
            Cardinality({p.sku : p \in {q \in products : q.sku # NoSku /\ q.price > 0}})

\* a successful sync over three staging rows of which some are invalid, that
\* replaced an earlier snapshot
C17_Witness ==
    /\ pl.pc = "exit" /\ pl.exit = 0
    /\ Cardinality(products) = 3
    /\ \E p \in products : p.sku = NoSku
    /\ \E p \in products : p.sku # NoSku /\ p.price <= 0
    /\ Cardinality(mProducts) = 1
    /\ mPrev.products # {}

\* the field values of a product row, without the id the database assigned
FieldsOf(p) ==
    [sku |-> p.sku, name |-> p.name, price |-> p.price, first_seen |-> p.first_seen,
     last_updated |-> p.last_updated, last_scraped |-> p.last_scraped]

\* C18: when sync has run successfully twice in a row over an unchanged
\* staging store, the master store after the second run holds the products
\* with the same field values per SKU, the same run rows and no history rows,
\* as after the first run.
C18_SyncIdempotent ==
    (pl.pc = "exit" /\ pl.exit = 0 /\ pl.prior) =>
        /\ {FieldsOf(p) : p \in mProducts} = {FieldsOf(p) : p \in mPrev.products}
        /\ mRuns = mPrev.runs
        /\ mHistory = <<>> /\ mPrev.history = <<>>

\* C19: whenever a sync has ended successfully the master store holds no
\* history row, no product with an empty SKU or a price <= 0 and no two
\* products with the same SKU; at the step that ends the sync it holds one run
\* row per staging run row, in the same order with the same metadata. The
\* crawl may have changed the staging store after validate read it.
C19_SuccessfulSyncSnapshot ==
    /\ []((pl.pc = "exit" /\ pl.exit = 0) =>
            /\ mHistory = <<>>
            /\ \A p \in mProducts : p.sku # NoSku /\ p.price > 0
            /\ \A p, q \in mProducts : p.sku = q.sku => p = q)
    /\ [][(pl.pc # "exit" /\ pl'.pc = "exit" /\ pl'.exit = 0) =>
             /\ Len(mRuns') = Len(runs)
             /\ \A i \in DOMAIN runs : mRuns'[i] = runs[i]]_vars

\* a successful sync whose master store holds a product that validate had not
\* seen and the failed run of the crawl that saved it
C19_Witness ==
    /\ pl.pc = "exit" /\ pl.exit = 0
    /\ \E p \in mProducts :
          ~\E q \in pl.validated : q.sku = p.sku /\ q.price = p.price
    /\ \E i \in DOMAIN mRuns : mRuns[i].status = "failed" /\ mRuns[i].errors # ""
    /\ mPrev.products # {}

\* C20: a step of the crawl leaves the master store unchanged; validate
\* changes neither store; a step of sync leaves the staging store unchanged;
\* the staging store changes only in steps of the crawl and the master store
\* only in steps of sync.
C20_StoresFrame ==
    [][/\ sc' # sc => UNCHANGED masterVars
       /\ (pl' # pl /\ pl.pc = "start") => UNCHANGED <<stagingVars, masterVars>>
       /\ (pl' # pl /\ pl.pc \in {"clear", "load", "runs"}) => UNCHANGED stagingVars
       /\ stagingVars' # stagingVars => (sc' # sc /\ pl' = pl)
       /\ masterVars' # masterVars =>
              (pl' # pl /\ pl.pc \in {"clear", "load", "runs"} /\ sc' = sc)]_vars

\* a crawl has written a product to the staging store and returned, and a
\* sync has replaced the master store
C20_Witness ==
    /\ pl.pc = "exit" /\ pl.exit = 0
    /\ sc["s1"].pc = "returned"
    /\ \E p \in products : p.last_scraped > 1
    /\ runs # <<>> /\ runs[Len(runs)].status = "completed"
    /\ mProducts # {} /\ mProducts # mPrev.products

\* the entries of the navigate log about the goto layers, and those about the
\* consent methods
LayerLog ==
    LET IsLayer(e) == \E i \in DOMAIN Layers : e[1] = Layers[i]
    IN SelectSeq(nav.log, IsLayer)

ConsentLog ==
    LET IsMethod(e) == \E i \in DOMAIN ConsentMethods : e[1] = ConsentMethods[i]
    IN SelectSeq(nav.log, IsMethod)

\* C21: navigate tries the goto layers in the order domcontentloaded, load,
\* commit, a layer only after every earlier one failed; it returns False only
\* when all three layers failed, whatever happened to the cookie injection and
\* to the consent banner; it returns True once a layer succeeded; it never
\* raises.
C21_LayeredNavigation ==
    /\ \A i \in DOMAIN LayerLog :
          /\ LayerLog[i][1] = Layers[i]
          /\ i < Len(LayerLog) => LayerLog[i][2] = "failed"
    /\ nav.result = "false" =>
          /\ Len(LayerLog) = Len(Layers)
          /\ \A i \in DOMAIN LayerLog : LayerLog[i][2] = "failed"
    /\ (nav.pc = "returned" /\ \E i \in DOMAIN LayerLog : LayerLog[i][2] = "ok") =>
          nav.result = "true"
    /\ nav.pc # "raised" /\ nav.result # "raised"

\* navigate returned True although the cookie injection raised, the first
\* layer failed and a consent method raised
C21_Witness ==
    /\ nav.pc = "returned" /\ nav.result = "true"
    /\ nav.log[1] = <<"cookies", "raised">>
    /\ LayerLog = <<<<"domcontentloaded", "failed">>, <<"load", "ok">>>>
    /\ \E i \in DOMAIN ConsentLog : ConsentLog[i][2] = "raised"

\* C30: the consent methods run only after a goto layer succeeded, in the
\* order accept by script, reject by script, click; a method runs only when
\* every earlier one returned false or raised, so nothing runs after a
\* success; when navigate returns after the consent handling, either the
\* last method tried succeeded or all three were tried, and the result is
\* True.
C30_ConsentOrder ==
    /\ \A i \in DOMAIN ConsentLog :
          /\ ConsentLog[i][1] = ConsentMethods[i]
          /\ i < Len(ConsentLog) => ConsentLog[i][2] # "true"
    /\ ConsentLog # <<>> =>
          /\ \E i \in DOMAIN LayerLog : LayerLog[i][2] = "ok"
          /\ nav.result \in {"none", "true"}
    /\ (nav.pc = "returned" /\ nav.result = "true") =>
          /\ ConsentLog # <<>>
          /\ \/ ConsentLog[Len(ConsentLog)][2] = "true"
             \/ Len(ConsentLog) = Len(ConsentMethods)

\* the accept script raised, the reject script found no button, the click
\* found none either, and navigate returned True
C30_Witness ==
    /\ nav.pc = "returned" /\ nav.result = "true"
    /\ ConsentLog = <<<<"accept_js", "raised">>, <<"reject_js", "false">>, <<"click", "false">>>>


\* C25: validate_price gives 12.99 for "12,99 €" and for "€12.99", 24.50 for
\* "  24,50 €  " and 19.99 for "19.99"; None for None, for the empty string
\* and for a text without a digit; for a text with a digit a value that is
\* not negative and whose integer part is the first run of digits of the text
\* without its currency symbols.
C25_ValidatePrice ==
    (vp.pc = "returned" /\ vp.fn = "validate_price") =>
        LET a == vp.arg
            o == vp.out
            Is(n, d) == ~o.none /\ o.num * d = n * o.den
            t == RemoveAll(a.text, Currency)
            i == FirstDigit(t)
        IN /\ a = Text(<<"1", "2", ",", "9", "9", Space, Euro>>) => Is(1299, 100)
           /\ a = Text(<<Euro, "1", "2", ".", "9", "9">>) => Is(1299, 100)
           /\ a = Text(<<Space, Space, "2", "4", ",", "5", "0", Space, Euro, Space, Space>>) =>
                  Is(2450, 100)
           /\ a = Text(<<"1", "9", ".", "9", "9">>) => Is(1999, 100)
           /\ (a.none \/ i = 0) => o.none
           /\ (~a.none /\ i # 0) =>
                  /\ ~o.none
                  /\ o.num >= 0
                  /\ o.num \div o.den = DigitsValue(SubSeq(t, i, RunEnd(t, i)))

\* validate_price("  24,50 €  ") returned 24.5
C25_Witness ==
    /\ vp.pc = "returned" /\ vp.fn = "validate_price"
    /\ vp.arg = Text(<<Space, Space, "2", "4", ",", "5", "0", Space, Euro, Space, Space>>)
    /\ ~vp.out.none /\ vp.out.num * 10 = 245 * vp.out.den

\* the words of a text: its maximal runs of characters that are no whitespace
WordStarts(s) == {i \in DOMAIN s : s[i] \notin Whitespace /\ (i = 1 \/ s[i - 1] \in Whitespace)}

\* C27: clean_text returns "" for None and for ""; its result has the
\* characters of the argument that are no whitespace, in the same words,
\* separated by one space each, with no other whitespace and none at either
\* end; cleaning the result again gives the result.
C27_CleanText ==
    (vp.fn = "clean_text" /\ vp.pc \in {"returned", "cleaned_again"}) =>
        LET a == vp.arg
            o == vp.out
        IN /\ (a.none \/ a.text = <<>>) => o = <<>>
           /\ RemoveAll(o, Whitespace) = RemoveAll(a.text, Whitespace)
           /\ Cardinality(WordStarts(o)) = Cardinality(WordStarts(a.text))
           /\ \A i \in DOMAIN o :
                 o[i] \in Whitespace =>
                    /\ o[i] = Space
                    /\ i # 1 /\ i # Len(o)
                    /\ o[i + 1] \notin Whitespace
           /\ a = Text(<<"a", Space, Space, Space, "b">>) => o = <<"a", Space, "b">>
           /\ a = Text(<<"a", Newline, "b">>) => o = <<"a", Space, "b">>
           /\ a = Text(<<"a", Tab, "b">>) => o = <<"a", Space, "b">>
           /\ vp.pc = "cleaned_again" => vp.again = o

\* clean_text("  a b  ") returned "a b", and so did clean_text("a b")
C27_Witness ==
    /\ vp.fn = "clean_text" /\ vp.pc = "cleaned_again"
    /\ vp.arg = Text(<<Space, Space, "a", Space, "b", Space, Space>>)
    /\ vp.out = <<"a", Space, "b">>
    /\ vp.again = vp.out

\* C26: all the calls of load_config and get_config that returned in the
\* process returned the identical object, and the configuration file was read
\* at most once.
C26_CachedAfterFirstLoad ==
    /\ \A i, j \in DOMAIN cfg.returned : cfg.returned[i] = cfg.returned[j]
    /\ cfg.reads <= 1

\* the records extract_products has built so far in this call
OutRecords == {ex.out[i] : i \in DOMAIN ex.out}

\* C22: no record that extract_products returns or has appended has an
\* empty name, no price or a price <= 0, whichever branch built it, a payload
\* whose price is missing or cannot be converted included.
C22_NoInvalidRecord ==
    \A r \in OutRecords \cup ex.earlier :
        /\ ~r.product_name.none /\ r.product_name.text # <<>>
        /\ ~r.price.none
        /\ ~Leq0(r.price)

\* a page was returned on which a payload with an unconvertible price gave no
\* record and another payload gave one
C22_Witness ==
    /\ ex.pc = "returned"
    /\ \E i, j \in DOMAIN ex.trace :
          /\ ex.cards[i].attr.kind = "object" /\ ex.cards[i].attr.price = JsonString(<<"x">>)
          /\ ex.trace[i] = [via |-> "json", outcome |-> "skipped"]
          /\ ex.trace[j] = [via |-> "json", outcome |-> "appended"]
    /\ Len(ex.out) = 1

\* the markup of the card has a name that is not blank and a price above 0
MarkupValid(c) ==
    /\ ~c.name_text.none /\ CleanText(c.name_text) # <<>>
    /\ ~c.price_text.none
    /\ ~ValidatePrice(c.price_text).none /\ ValidatePrice(c.price_text).num > 0

\* a required field of the field list has no element in the card, or its
\* price element has no number
RequiredMissing(c) ==
    \E i \in DOMAIN ex.fields :
        /\ ex.fields[i].required
        /\ \/ ex.fields[i].name = "product_name" /\ c.name_text.none
           \/ ex.fields[i].name = "price" /\
                 (c.price_text.none \/ ValidatePrice(c.price_text).none)

\* the records of the cards that were appended, in the order of the cards
RECURSIVE RecordsInOrder(_)
RecordsInOrder(n) ==
    IF n = 0 THEN <<>>
    ELSE RecordsInOrder(n - 1) \o
            (IF ex.trace[n].outcome = "appended"
             THEN <<ExtractProductFromCard(ex.cards[n], ex.fields).product>>
             ELSE <<>>)

\* C23 as stated: a card with a malformed payload, with a payload that is no
\* object, without a required field, or that raised, contributes no record;
\* the page is not aborted, and the records returned are those of the other
\* cards in the order of their cards.
C23_FailingCardNoRecord ==
    /\ \A i \in DOMAIN ex.trace :
          (\/ ex.cards[i].attr.kind \in {"malformed", "nonobject"}
           \/ (ex.trace[i].via = "markup" /\ RequiredMissing(ex.cards[i]))
           \/ ex.trace[i].outcome = "raised") =>
              ex.trace[i].outcome # "appended"
    /\ ex.pc # "raised"
    /\ ex.pc = "returned" => Len(ex.trace) = Len(ex.cards)
    /\ ex.out = RecordsInOrder(Len(ex.trace))

\* C23, amended: a card with a payload that is no object, without a required
\* field, that raised, or with a malformed payload and a markup that gives no
\* valid record, contributes no record; the page is not aborted, and the
\* records returned are those of the other cards in the order of their cards.
C23_FailedCardNoRecord ==
    /\ \A i \in DOMAIN ex.trace :
          (\/ ex.cards[i].attr.kind = "nonobject"
           \/ (ex.cards[i].attr.kind = "malformed" /\ ~MarkupValid(ex.cards[i]))
           \/ (ex.trace[i].via = "markup" /\ RequiredMissing(ex.cards[i]))
           \/ ex.trace[i].outcome = "raised") =>
              ex.trace[i].outcome # "appended"
    /\ ex.pc # "raised"
    /\ ex.pc = "returned" => Len(ex.trace) = Len(ex.cards)
    /\ ex.out = RecordsInOrder(Len(ex.trace))

\* a page was returned whose first card raised and whose second card gave the
\* only record
C23_Witness ==
    /\ ex.pc = "returned"
    /\ Len(ex.trace) = 2
    /\ ex.trace[1].outcome = "raised"
    /\ ex.trace[2].outcome = "appended"
    /\ Len(ex.out) = 1

\* C24: two records with a generated sku, of one page or of two pages, that
\* have the same name and the same price have the same sku.
C24_SkuOfNameAndPrice ==
    \A r, q \in OutRecords \cup ex.earlier :
        (/\ r.sku.digest # <<>> /\ q.sku.digest # <<>>
         /\ r.product_name = q.product_name
         /\ r.price.num * q.price.den = q.price.num * r.price.den) =>
            r.sku = q.sku

\* two cards of two pages whose names and prices are written differently
\* ("a b" at "2,50" and "a  b" at "2.5") got the same generated sku
C24_Witness ==
    /\ ex.pc = "returned"
    /\ \E r \in ex.earlier, q \in OutRecords :
          /\ r.sku.digest # <<>>
          /\ r.sku = q.sku
          /\ r.price.den # q.price.den

\* C28 as stated: the markup branch runs for a card only on a page without
\* any element that carries the payload attribute.
C28_FallbackOnlyOnEmptyPage ==
    \A i \in DOMAIN ex.trace : ex.trace[i].via = "markup" => ~ex.structured

\* C28, amended: the markup branch runs for a card only when the card has no
\* payload attribute, an empty one, or a payload that is no JSON; on a page
\* without any payload attribute that is every card, and on a page with
\* payload attributes a card whose payload is no JSON goes through the markup
\* branch.
C28_FallbackPerCard ==
    \A i \in DOMAIN ex.trace :
        /\ ex.trace[i].via = "markup" =>
              ex.cards[i].attr.kind \in {"absent", "empty", "malformed"}
        /\ ~ex.structured => ex.trace[i].via = "markup"
        /\ (ex.structured /\ ex.cards[i].attr.kind = "malformed") =>
              ex.trace[i].via = "markup"

\* on a page with a parsed payload, a card with a malformed payload gave a
\* record through the markup branch
C28_Witness ==
    /\ ex.pc = "returned" /\ ex.structured
    /\ \E i, j \in DOMAIN ex.trace :
          /\ ex.cards[i].attr.kind = "malformed"
          /\ ex.trace[i] = [via |-> "markup", outcome |-> "appended"]
          /\ ex.trace[j] = [via |-> "json", outcome |-> "appended"]

\* the SKUs whose product row was inserted by run r: the first history row
\* of the SKU is tagged with r
CreatedBy(r) ==
    {k \in Skus :
        /\ HistoryOfSku(history, k) # {}
        /\ history[CHOOSE i \in HistoryOfSku(history, k) :
                       \A j \in HistoryOfSku(history, k) : i <= j].run_id = r}

\* C29: for every run that is completed, products_new is the number of
\* products its page saves inserted, products_updated the number of its
\* other accepted records, their sum the number of records its page saves
\* accepted, products_found the number of records extracted from the pages of
\* the attempt, and products_new + products_updated <= products_found.
C29_CompletedRunCounts ==
    \A r \in DOMAIN runs :
        runs[r].status = "completed" =>
            /\ runs[r].products_new = Cardinality(CreatedBy(r))
            /\ runs[r].products_updated =
                   Cardinality(HistoryOfRun(r)) - Cardinality(CreatedBy(r))
            /\ runs[r].products_new + runs[r].products_updated = pageAccepted[r]
            /\ \E s \in Scrapers : sc[s].run_id = r /\ runs[r].products_found = sc[s].found
            /\ runs[r].products_new + runs[r].products_updated <= runs[r].products_found

\* a completed run of two pages that inserted a product, updated it on the
\* next page and skipped a record
C29_Witness ==
    \E r \in DOMAIN runs :
        /\ runs[r].status = "completed"
        /\ runs[r].products_new >= 1
        /\ runs[r].products_updated >= 1
        /\ runs[r].products_found > runs[r].products_new + runs[r].products_updated

\* a pause that throttle() made: its length lies in the configured interval
ThrottlePause(p) ==
    /\ p.kind = "throttle"
    /\ lp.throttling.min_delay <= p.secs /\ p.secs <= lp.throttling.max_delay

\* C31: once a click made through click_element went through, directly or
\* through the script that clicks the nearest clickable ancestor, the next
\* request to the browser comes only after a pause made by throttle(), whose
\* length lies in [min_delay, max_delay].
C31_ClickThenThrottle ==
    (lp.pc # "idle" /\ lp.path # "none" /\ lp.requested) =>
        \E i \in DOMAIN lp.pauses : ThrottlePause(lp.pauses[i])

\* C32: every attempt that entered the pagination loop leaves it at some
\* time and ends as completed or failed, whatever the site answers.
C32_AttemptEnds == <>(lp.pc \in {"completed", "failed"})

\* C33: an iteration after the first starts only when the click_element
\* before it returned True, and no content that was already extracted is
\* extracted again after a click that failed.
C33_IterateAfterClick ==
    lp.pc # "idle" =>
        /\ (lp.pc = "content" /\ lp.page_count > 1) => lp.click = "true"
        /\ ~(lp.click = "false" /\ lp.repeated)

\* C34: when the price of a product differs between two crawls, the second
\* crawl updates the product row the first crawl made and adds one history
\* row; it makes no second product row. This holds for a card with a payload
\* id and for a card whose SKU is generated from the markup.
C34_PriceChangeUpdates ==
    (rc.pc = "done" /\ rc.prices[1] # rc.prices[2]) =>
        /\ Cardinality(products) = 1
        /\ Len(history) = 2
        /\ rc.stats[2].new = 0 /\ rc.stats[2].updated = 1
        /\ \A p \in products : p.price = Float(rc.prices[2][1], rc.prices[2][2])

\* C35: every record extract_products returns has a SKU that is not None and
\* not empty, whether it was read from a payload or from the markup, also
\* when the payload has a name and a positive price and no id.
C35_EveryRecordHasSku ==
    ex.pc # "idle" =>
        \A i \in DOMAIN ex.out : ~ex.out[i].sku.none /\ SkuStr(ex.out[i].sku) # NoSku

\* C36: whenever a save call returns, its counters new, updated, skipped (no
\* SKU) and duplicates in the batch add up to the number of records it was
\* given, and the call added new + updated history rows.
C36_SaveStatsAddUp ==
    [][\A s \in Scrapers :
          SaveCommit(s) =>
              LET st == sc[s].tx.stats
              IN  /\ st.new + st.updated + st.skipped + st.dups = Len(sc[s].batch)
                  /\ Len(history') = Len(history) + st.new + st.updated]_vars

\* two page saves returned in one attempt: one inserted a product and skipped
\* a record without SKU, the other updated a product
C36_Witness ==
    \E s \in Scrapers :
        /\ sc[s].pc = "paginate"
        /\ sc[s].total_new >= 1 /\ sc[s].total_updated >= 1
        /\ sc[s].found > sc[s].total_new + sc[s].total_updated
        /\ Len(history) = sc[s].total_new + sc[s].total_updated

\* C37: whenever a sync call returned True, the synced count of the syncer is
\* the number of products in the master store, and synced + skipped is the
\* number of staging products the call read; this holds for every sync call
\* of one syncer object, not only the first.
C37_SyncCountsPerCall ==
    (pl.pc = "exit" /\ pl.exit = 0) =>
        /\ pl.synced_count = Cardinality(mProducts)
        /\ pl.synced_count + pl.skipped_count = Cardinality(products)

\* C38: what validate returns is decided by the staging store it reads: on
\* every call, also a later call on the same validator object, it returns
\* what a validation of that store by itself returns, so a store without
\* critical rows passes after a repair and an unchanged store gives the same
\* result again.
C38_ValidateOfStoreOnly ==
    pl.validation # "none" => ((pl.validation = "passed") <=> Validate(pl.validated))

\* C39: a request to the read API that is answered while a sync is under way
\* sees the master store as it was when the sync was called, or the complete
\* new snapshot (the clean staging products with the staging run rows and no
\* history): never a cleared or half-filled store.
C39_ReaderSeesWholeSnapshot ==
    (rd.pc = "answered" /\ rd.during \in {"clear", "load", "runs"}) =>
        \/ rd.seen = rd.before
        \/ rd.seen = [products |-> SyncedProducts(products, now),
                      history |-> <<>>,
                      runs |-> SyncedRuns(runs)]

\* C40: a crawl that fails after its last attempt does not stop the
\* scheduler: the process never leaves run_scheduler with the error, the
\* polling loop begins only after the crawl at startup is over, no poll
\* leaves a due crawl unstarted, and after a caught failure the crawl of the
\* next due time is started.
C40_SchedulerSurvivesFailure ==
    /\ [](sch.pc # "stopped")
    /\ []((sch.pc \in {"poll", "sleep"} \/ sch.origin = "job") =>
              sch.startup \in {"completed", "failed"})
    /\ [][(sch.pc = "poll" /\ sch.due) => (sch'.pc = "crawl" /\ sch'.origin = "job")]_vars
    /\ ((sch.caught /\ sch.pc \in {"poll", "sleep"}) ~>
            (sch.pc = "crawl" /\ sch.origin = "job" /\ sch.attempt = 1))

\* the crawl of a due time begins after an earlier crawl failed on its last attempt
C40_Witness ==
    /\ sch.caught
    /\ sch.startup = "failed"
    /\ sch.pc = "crawl" /\ sch.origin = "job" /\ sch.attempt = 1

====
